---- MODULE Spec2Model ----
(***************************************************************************)
(* Ride-sharing core (backend/cpp): MinHeap, Dijkstra, Graph,              *)
(* DriverManager and RideMatcher, modelled as state machines.              *)
(*                                                                         *)
(* Nine specifications share the variables:                                *)
(*   SpecHeap     - a MinHeap driven by arbitrary insert / extractMin /    *)
(*                  decreaseKey calls;                                     *)
(*   SpecHeapCalls - the same MinHeap over fewer entries, with the         *)
(*                  arguments of each call and the order of entry kept;    *)
(*   SpecDijkstra - Dijkstra::findShortestPath run step by step (one loop  *)
(*                  iteration per step) on a graph drawn from a family;    *)
(*   Spec         - the RideMatcher with its DriverManager, request queue  *)
(*                  and sliding window over such a graph;                  *)
(*   SpecWindow   - the same RideMatcher fed a long stream of requests,    *)
(*                  so that the sliding window fills and evicts;           *)
(*   SpecGraph    - a Graph driven by addNode / addEdge / addDirectedEdge  *)
(*                  calls, failing ones included, validate and toJSON;     *)
(*   SpecDrivers  - a DriverManager driven by its own operations;          *)
(*   SpecDijkstraLive - SpecDijkstra on more graphs, with the fairness of  *)
(*                  a loop that runs to its end;                           *)
(*   SpecDrain    - a RideMatcher whose processNextRequest keeps being     *)
(*                  called on a queue of requests that can and cannot be   *)
(*                  served.                                                *)
(* A weight may be an IEEE not-a-number in SpecGraph (see NaN, Less).      *)
(* Distances are doubles in the source; the model uses naturals, with      *)
(* Infinity a value above every finite path length of the model.           *)
(***************************************************************************)
EXTENDS Integers, Sequences, FiniteSets, TLC

VARIABLES
    pq,          \* SpecHeap: the MinHeap under test, [heap, positions]
    hop,         \* SpecHeap: name of the last MinHeap call
    hret,        \* SpecHeap: HeapNode returned by the last extractMin call
    keyRaised,   \* SpecHeap: a decreaseKey call raised a present vertex's distance
    hcall,       \* SpecHeapCalls: vertex and distance given to the last insert
                 \*                or decreaseKey call
    entered,     \* SpecHeapCalls: history, the vertices of the entries in the
                 \*                heap in the order they entered it
    graph,       \* the Graph: [numVertices, adjacencyList, nodes]
    dj,          \* SpecDijkstra: the findShortestPath call in progress
    pathResult,  \* SpecDijkstra: the PathResult the call returned
    drivers,          \* Spec: DriverManager::drivers of the RideMatcher
    rideRequestQueue, \* Spec: RideMatcher::rideRequestQueue
    recentRequests,   \* Spec: RideMatcher::recentRequests (the sliding window)
    enqueued,         \* Spec: number of addRideRequest calls made so far
    accepted,         \* Spec: history, the requests addRideRequest was given, in order
    dequeued,         \* Spec: history, number of processNextRequest calls that
                      \*       found the queue non-empty
    result            \* Spec: the last RideMatcher call and what it returned

hvars == <<pq, hop, hret, keyRaised, hcall, entered>>

dvars == <<dj, pathResult>>

\* the history of the queue
history == <<enqueued, accepted, dequeued>>

mvars == <<drivers, rideRequestQueue, recentRequests, history, result>>

vars == <<pq, hop, hret, keyRaised, hcall, entered, graph, dj, pathResult,
          drivers, rideRequestQueue, recentRequests, enqueued, accepted,
          dequeued, result>>

\* std::numeric_limits<double>::infinity()
Infinity == 1000000

-----------------------------------------------------------------------------
(* Bounds of the MinHeap specification *)

\* heap.size() is kept at most MaxHeap by the guards of Insert / DecreaseKey
MaxHeap == 4
\* vertices and distances passed to insert / decreaseKey
HeapVertices == {0, 1, 2}

HeapDistances == {0, 1, 2}

-----------------------------------------------------------------------------
(* std::unordered_map<int,int>: a function on the set of its keys *)

MapPut(m, k, v) == [x \in (DOMAIN m) \cup {k} |-> IF x = k THEN v ELSE m[x]]

MapErase(m, k) == [x \in (DOMAIN m) \ {k} |-> m[x]]

EmptyMap == [x \in {} |-> 0]

-----------------------------------------------------------------------------
(* MinHeap (min_heap.h, min_heap.cpp).  Array indices are the source's     *)
(* 0-based indices; At reads heap[i].                                      *)

HeapNode(v, d) == [vertex |-> v, distance |-> d]

EmptyHeap == [heap |-> <<>>, positions |-> EmptyMap]

At(h, i) == h.heap[i + 1]

parent(i) == (i - 1) \div 2

leftChild(i) == 2 * i + 1

rightChild(i) == 2 * i + 2

\* positions[heap[i].vertex] = j; positions[heap[j].vertex] = i; then the
\* two nodes are exchanged.  The two map writes happen in this order.
swap(h, i, j) ==
    LET p1 == MapPut(h.positions, At(h, i).vertex, j)
        p2 == MapPut(p1, At(h, j).vertex, i)
    IN  [heap |-> [h.heap EXCEPT ![i + 1] = At(h, j), ![j + 1] = At(h, i)],
         positions |-> p2]

\* mutant: the new or lowered entry is left where it is
heapifyUp_NoSift(h, i) == h

RECURSIVE heapifyUp(_, _)
heapifyUp(h, i) ==
    IF i > 0 /\ At(h, parent(i)).distance > At(h, i).distance
    THEN heapifyUp(swap(h, i, parent(i)), parent(i))
    ELSE h

\* mutant: the right child is never compared
RECURSIVE heapifyDown_IgnoresRight(_, _)
heapifyDown_IgnoresRight(h, i) ==
    LET left == leftChild(i)
    IN  IF left < Len(h.heap) /\ At(h, left).distance < At(h, i).distance
        THEN heapifyDown_IgnoresRight(swap(h, i, left), left)
        ELSE h

RECURSIVE heapifyDown(_, _)
heapifyDown(h, i) ==
    LET n     == Len(h.heap)
        left  == leftChild(i)
        right == rightChild(i)
        m1    == IF left < n /\ At(h, left).distance < At(h, i).distance
                 THEN left ELSE i
        minIndex == IF right < n /\ At(h, right).distance < At(h, m1).distance
                    THEN right ELSE m1
    IN  IF minIndex # i
        THEN heapifyDown(swap(h, i, minIndex), minIndex)
        ELSE h

\* heap.push_back(node); positions[vertex] = index; heapifyUp(index)
insert(h, vertex, distance) ==
    LET index == Len(h.heap)
        h1 == [heap |-> Append(h.heap, HeapNode(vertex, distance)),
               positions |-> MapPut(h.positions, vertex, index)]
    IN  heapifyUp(h1, index)

\* The pair <<returned node, heap afterwards>>
extractMin(h) ==
    IF h.heap = <<>>
    THEN [node |-> HeapNode(-1, Infinity), pq |-> h]
    ELSE LET minNode == At(h, 0)
             last    == h.heap[Len(h.heap)]
             moved   == [h.heap EXCEPT ![1] = last]
             p1      == MapPut(h.positions, last.vertex, 0)
             popped  == SubSeq(moved, 1, Len(moved) - 1)
             p2      == MapErase(p1, minNode.vertex)
             h2      == [heap |-> popped, positions |-> p2]
         IN  [node |-> minNode,
              pq   |-> IF popped # <<>> THEN heapifyDown(h2, 0) ELSE h2]

\* A vertex absent from positions is inserted; otherwise its slot is
\* overwritten and sifted up only.
decreaseKey(h, vertex, newDistance) ==
    IF vertex \notin DOMAIN h.positions
    THEN insert(h, vertex, newDistance)
    ELSE LET index == h.positions[vertex]
         IN  heapifyUp([h EXCEPT !.heap[index + 1].distance = newDistance], index)

contains(h, vertex) == vertex \in DOMAIN h.positions

size(h) == Len(h.heap)

isEmpty(h) == h.heap = <<>>

-----------------------------------------------------------------------------
(* Graph (graph.h, graph.cpp).  An operation that can throw returns the    *)
(* exception it raised ("none" when it returned) with the graph it left.   *)

Edge(dest, w, name) == [destination |-> dest, weight |-> w, roadName |-> name]

Node(id, name, lat, lon) ==
    [id |-> id, name |-> name, latitude |-> lat, longitude |-> lon]

NewGraph(vertices) ==
    [numVertices   |-> vertices,
     adjacencyList |-> [v \in 0..(vertices - 1) |-> <<>>],
     nodes         |-> EmptyMap]

InvalidIndex(g, v) == v < 0 \/ v >= g.numVertices

\* a double that is not a number, as a value no weight of the model takes
NaN == -1000001

\* "a < b" on doubles: false when either side is not a number
Less(a, b) == a # NaN /\ b # NaN /\ a < b

\* mutant: only the direction src -> dest is added
addEdge_ForwardOnly(g, src, dest, weight, roadName) ==
    IF InvalidIndex(g, src) \/ InvalidIndex(g, dest)
    THEN [error |-> "out_of_range", graph |-> g]
    ELSE IF Less(weight, 0)
    THEN [error |-> "invalid_argument", graph |-> g]
    ELSE [error |-> "none",
          graph |-> [g EXCEPT !.adjacencyList[src] =
                                  Append(@, Edge(dest, weight, roadName))]]

addEdge(g, src, dest, weight, roadName) ==
    IF InvalidIndex(g, src) \/ InvalidIndex(g, dest)
    THEN [error |-> "out_of_range", graph |-> g]
    ELSE IF Less(weight, 0)
    THEN [error |-> "invalid_argument", graph |-> g]
    ELSE LET a1 == [g.adjacencyList EXCEPT
                        ![src] = Append(@, Edge(dest, weight, roadName))]
             a2 == [a1 EXCEPT ![dest] = Append(@, Edge(src, weight, roadName))]
         IN  [error |-> "none", graph |-> [g EXCEPT !.adjacencyList = a2]]

\* mutant: the new road is put in front of the list
addDirectedEdge_Prepends(g, src, dest, weight, roadName) ==
    IF InvalidIndex(g, src) \/ InvalidIndex(g, dest)
    THEN [error |-> "out_of_range", graph |-> g]
    ELSE IF Less(weight, 0)
    THEN [error |-> "invalid_argument", graph |-> g]
    ELSE [error |-> "none",
          graph |-> [g EXCEPT !.adjacencyList[src] =
                                  <<Edge(dest, weight, roadName)>> \o @]]

addDirectedEdge(g, src, dest, weight, roadName) ==
    IF InvalidIndex(g, src) \/ InvalidIndex(g, dest)
    THEN [error |-> "out_of_range", graph |-> g]
    ELSE IF Less(weight, 0)
    THEN [error |-> "invalid_argument", graph |-> g]
    ELSE [error |-> "none",
          graph |-> [g EXCEPT !.adjacencyList[src] =
                                  Append(@, Edge(dest, weight, roadName))]]

addNode(g, id, name, lat, lon) ==
    IF InvalidIndex(g, id)
    THEN [error |-> "out_of_range", graph |-> g]
    ELSE [error |-> "none",
          graph |-> [g EXCEPT !.nodes = MapPut(@, id, Node(id, name, lat, lon))]]

\* vertex is in range wherever the model calls this (see DijkstraIndexSafe)
getAdjacentNodes(g, vertex) == g.adjacencyList[vertex]

nodeExists(g, id) == id \in DOMAIN g.nodes

validate(g) ==
    \A i \in 0..(g.numVertices - 1) :
        \A k \in 1..Len(g.adjacencyList[i]) :
            /\ ~InvalidIndex(g, g.adjacencyList[i][k].destination)
            /\ ~Less(g.adjacencyList[i][k].weight, 0)

\* the "edges" array of toJSON: for each vertex i in turn, the roads of its
\* list with i < destination
ExportedEdge(i, edge) ==
    [source |-> i, destination |-> edge.destination, weight |-> edge.weight,
     roadName |-> edge.roadName]

RECURSIVE ExportList(_, _, _)
ExportList(i, edges, k) ==
    IF k > Len(edges) THEN <<>>
    ELSE IF i < edges[k].destination
    THEN <<ExportedEdge(i, edges[k])>> \o ExportList(i, edges, k + 1)
    ELSE ExportList(i, edges, k + 1)

RECURSIVE ExportFrom(_, _)
ExportFrom(g, i) ==
    IF i >= g.numVertices THEN <<>>
    ELSE ExportList(i, g.adjacencyList[i], 1) \o ExportFrom(g, i + 1)

\* nodes are listed in the map's enumeration order; the model keeps the map
toJSON(g) ==
    [numVertices |-> g.numVertices, nodes |-> g.nodes, edges |-> ExportFrom(g, 0)]

-----------------------------------------------------------------------------
(* Dijkstra (dijkstra.h, dijkstra.cpp).  A run is the record               *)
(* [distances, predecessors, pq, processed, staleSkips]; processed is the  *)
(* "Processing node u with distance d" log in order.                       *)

\* result.distances[source] = 0.0; pq.insert(source, 0.0)
DijkstraStart(g, source) ==
    [distances    |-> [v \in 0..(g.numVertices - 1) |->
                          IF v = source THEN 0 ELSE Infinity],
     predecessors |-> [v \in 0..(g.numVertices - 1) |-> -1],
     pq           |-> insert(EmptyHeap, source, 0),
     processed    |-> <<>>,
     staleSkips   |-> 0]

\* mutant: the candidate distance is the road's weight alone
RelaxEdge_NoAccumulate(run, u, edge) ==
    LET v       == edge.destination
        newDist == edge.weight
    IN  IF newDist < run.distances[v]
        THEN [run EXCEPT !.distances[v]    = newDist,
                         !.predecessors[v] = u,
                         !.pq              = decreaseKey(run.pq, v, newDist)]
        ELSE run

\* mutant: the predecessor is recorded on first discovery only
RelaxEdge_KeepsFirstPredecessor(run, u, edge) ==
    LET v       == edge.destination
        newDist == run.distances[u] + edge.weight
    IN  IF newDist < run.distances[v]
        THEN [run EXCEPT !.distances[v]    = newDist,
                         !.predecessors[v] = IF @ = -1 THEN u ELSE @,
                         !.pq              = decreaseKey(run.pq, v, newDist)]
        ELSE run

\* mutant: a candidate distance equal to the recorded one is taken as well
RelaxEdge_RelaxesOnTie(run, u, edge) ==
    LET v       == edge.destination
        newDist == run.distances[u] + edge.weight
    IN  IF newDist <= run.distances[v]
        THEN [run EXCEPT !.distances[v]    = newDist,
                         !.predecessors[v] = u,
                         !.pq              = decreaseKey(run.pq, v, newDist)]
        ELSE run

\* the body of "for (const Edge& edge : neighbors)" for one edge
RelaxEdge(run, u, edge) ==
    LET v       == edge.destination
        newDist == run.distances[u] + edge.weight
    IN  IF newDist < run.distances[v]
        THEN [run EXCEPT !.distances[v]    = newDist,
                         !.predecessors[v] = u,
                         !.pq              = decreaseKey(run.pq, v, newDist)]
        ELSE run

RECURSIVE RelaxFrom(_, _, _, _)
RelaxFrom(run, u, neighbors, k) ==
    IF k > Len(neighbors)
    THEN run
    \* each intermediate run is bound as a value before the next edge
    ELSE CHOOSE out \in {RelaxFrom(relaxed, u, neighbors, k + 1) :
                              relaxed \in {RelaxEdge(run, u, neighbors[k])}} : TRUE

\* mutant: the minimum is read but stays in the heap, and nothing is relaxed
ProcessExtracted_LeavesMinimum(g, run, ex) == run

\* the loop body once "HeapNode current = pq.extractMin()" has run; ex is
\* what extractMin gave: the node and the heap it left
ProcessExtracted(g, run, ex) ==
    IF ex.node.distance > run.distances[ex.node.vertex]
    THEN [run EXCEPT !.pq = ex.pq, !.staleSkips = @ + 1]
    ELSE RelaxFrom([run EXCEPT !.pq = ex.pq,
                               !.processed = Append(@, <<ex.node.vertex,
                                                         ex.node.distance>>)],
                   ex.node.vertex, getAdjacentNodes(g, ex.node.vertex), 1)

\* one iteration of "while (!pq.isEmpty())"
\* the extraction is bound as a value before it is processed
DijkstraIteration(g, run) ==
    CHOOSE out \in {ProcessExtracted(g, run, ex) : ex \in {extractMin(run.pq)}} : TRUE

RECURSIVE DijkstraLoop(_, _)
DijkstraLoop(g, run) ==
    IF isEmpty(run.pq)
    THEN run
    \* each iteration's run is bound as a value before the next iteration
    ELSE CHOOSE out \in {DijkstraLoop(g, next) :
                              next \in {DijkstraIteration(g, run)}} : TRUE

\* the DijkstraResult a finished run is returned as
DijkstraResult(run) ==
    [success |-> TRUE, distances |-> run.distances,
     predecessors |-> run.predecessors]

findShortestPaths(g, source) ==
    IF ~nodeExists(g, source)
    THEN [success |-> FALSE, distances |-> <<>>, predecessors |-> <<>>]
    ELSE CHOOSE out \in
             {DijkstraResult(run) :
                  run \in {DijkstraLoop(g, start) :
                               start \in {DijkstraStart(g, source)}}} : TRUE

\* the path is built back to front: Backtrack returns it already reversed
RECURSIVE Backtrack(_, _, _)
Backtrack(source, current, predecessors) ==
    IF current = -1
    THEN <<>>
    ELSE IF current = source
    THEN <<current>>
    ELSE Append(Backtrack(source, predecessors[current], predecessors), current)

\* mutant: the backtracked path is returned without the reversal
reconstructPath_NoReverse(source, destination, predecessors) ==
    LET p == Backtrack(source, destination, predecessors)
    IN  [i \in 1..Len(p) |-> p[Len(p) + 1 - i]]

reconstructPath(source, destination, predecessors) ==
    Backtrack(source, destination, predecessors)

\* minutes; distance is a multiple of the model's unit, so 60 * d / 40 is
\* kept exact by counting half minutes
calculateETA(distance) == (distance * 120) \div 40

\* the name of the first outgoing road of from that leads to to
FirstRoadName(g, from, to) ==
    LET edges == getAdjacentNodes(g, from)
        hits  == {k \in 1..Len(edges) : edges[k].destination = to}
    IN  IF hits = {} THEN <<>>
        ELSE <<edges[CHOOSE k \in hits : \A j \in hits : k <= j].roadName>>

RECURSIVE RoadNamesFrom(_, _, _)
RoadNamesFrom(g, path, i) ==
    IF i >= Len(path)
    THEN <<>>
    ELSE FirstRoadName(g, path[i], path[i + 1]) \o RoadNamesFrom(g, path, i + 1)

\* threw: the call left through std::out_of_range instead of returning
NotFound ==
    [found |-> FALSE, path |-> <<>>, totalDistance |-> 0, estimatedTime |-> 0,
     roadNames |-> <<>>, threw |-> FALSE]

\* getAdjacentNodes(from) in the road names loop throws for an invalid index
RoadNamesThrow(g, path) ==
    \E i \in 1..(Len(path) - 1) : InvalidIndex(g, path[i])

\* the PathResult of a found path
PathResult(g, path, totalDistance) ==
    [found         |-> TRUE,
     path          |-> path,
     totalDistance |-> totalDistance,
     estimatedTime |-> calculateETA(totalDistance),
     roadNames     |-> IF RoadNamesThrow(g, path) THEN <<>>
                       ELSE RoadNamesFrom(g, path, 1),
     threw         |-> RoadNamesThrow(g, path)]

\* mutant: a trip from a location to itself has no path
PathFromRun_NoTrivialPath(g, source, destination, dijkstraResult) ==
    IF ~dijkstraResult.success
    THEN NotFound
    ELSE IF dijkstraResult.distances[destination] = Infinity
            \/ source = destination
    THEN NotFound
    ELSE CHOOSE out \in
             {PathResult(g, path, dijkstraResult.distances[destination]) :
                  path \in {reconstructPath(source, destination,
                                            dijkstraResult.predecessors)}} : TRUE

\* the part of findShortestPath that follows the Dijkstra run
PathFromRun(g, source, destination, dijkstraResult) ==
    IF ~dijkstraResult.success
    THEN NotFound
    ELSE IF dijkstraResult.distances[destination] = Infinity
    THEN NotFound
    ELSE CHOOSE out \in
             {PathResult(g, path, dijkstraResult.distances[destination]) :
                  path \in {reconstructPath(source, destination,
                                            dijkstraResult.predecessors)}} : TRUE

findShortestPath(g, source, destination) ==
    IF ~nodeExists(g, source) \/ ~nodeExists(g, destination)
    THEN NotFound
    ELSE CHOOSE out \in
             {PathFromRun(g, source, destination, dijkstraResult) :
                  dijkstraResult \in {findShortestPaths(g, source)}} : TRUE

-----------------------------------------------------------------------------
(* DriverManager (driver_manager.h, driver_manager.cpp): drivers is the    *)
(* unordered_map from driver id to Driver.  Ratings are in tenths.         *)

Driver(id, name, location, vehicle, rate) ==
    [id |-> id, name |-> name, currentLocation |-> location, isAvailable |-> TRUE,
     vehicleType |-> vehicle, rating |-> rate, completedRides |-> 0]

DefaultDriver == Driver("", "", 0, "Sedan", 50)

\* mutant: a driver whose id is present replaces the stored record
addDriver_Overwrites(ds, driver) ==
    IF driver.id \in DOMAIN ds
    THEN [ok |-> FALSE, drivers |-> [ds EXCEPT ![driver.id] = driver]]
    ELSE [ok |-> TRUE, drivers |-> MapPut(ds, driver.id, driver)]

addDriver(ds, driver) ==
    IF driver.id \in DOMAIN ds
    THEN [ok |-> FALSE, drivers |-> ds]
    ELSE [ok |-> TRUE, drivers |-> MapPut(ds, driver.id, driver)]

removeDriver(ds, driverId) ==
    IF driverId \notin DOMAIN ds
    THEN [ok |-> FALSE, drivers |-> ds]
    ELSE [ok |-> TRUE, drivers |-> MapErase(ds, driverId)]

\* the Driver* getDriver returns: nullptr, or the stored record
getDriver(ds, driverId) ==
    IF driverId \notin DOMAIN ds
    THEN [success |-> FALSE, driver |-> DefaultDriver]
    ELSE [success |-> TRUE, driver |-> ds[driverId]]

\* mutant: a driver that is moved is made available as well
updateDriverLocation_MarksAvailable(ds, driverId, newLocation) ==
    IF driverId \notin DOMAIN ds
    THEN [ok |-> FALSE, drivers |-> ds]
    ELSE [ok |-> TRUE,
          drivers |-> [ds EXCEPT ![driverId].currentLocation = newLocation,
                                 ![driverId].isAvailable = TRUE]]

updateDriverLocation(ds, driverId, newLocation) ==
    IF driverId \notin DOMAIN ds
    THEN [ok |-> FALSE, drivers |-> ds]
    ELSE [ok |-> TRUE,
          drivers |-> [ds EXCEPT ![driverId].currentLocation = newLocation]]

\* mutant: the update also counts a completed ride
updateDriverAvailability_CountsRide(ds, driverId, available) ==
    IF driverId \notin DOMAIN ds
    THEN [ok |-> FALSE, drivers |-> ds]
    ELSE [ok |-> TRUE,
          drivers |-> [ds EXCEPT ![driverId].isAvailable = available,
                                 ![driverId].completedRides = @ + 1]]

updateDriverAvailability(ds, driverId, available) ==
    IF driverId \notin DOMAIN ds
    THEN [ok |-> FALSE, drivers |-> ds]
    ELSE [ok |-> TRUE, drivers |-> [ds EXCEPT ![driverId].isAvailable = available]]

AvailableIds(ds) == {id \in DOMAIN ds : ds[id].isAvailable}

\* the sequences in which the unordered_map may enumerate the ids of S
Orders(S) ==
    {o \in [1..Cardinality(S) -> S] : \A i, j \in 1..Cardinality(S) :
                                          i # j => o[i] # o[j]}

\* the copies of the available drivers, in the enumeration order given
getAvailableDrivers(ds, order) == [i \in 1..Len(order) |-> ds[order[i]]]

-----------------------------------------------------------------------------
(* RideMatcher (ride_matcher.h, ride_matcher.cpp) *)

RideRequest(reqId, pickup, destination) ==
    [requestId |-> reqId, pickupLocation |-> pickup,
     destinationLocation |-> destination]

NoNearest ==
    [found |-> FALSE, driver |-> DefaultDriver, distance |-> 0,
     pathToPassenger |-> <<>>, threw |-> FALSE]

Nearest(driver, path) ==
    [found |-> TRUE, driver |-> driver, distance |-> path.totalDistance,
     pathToPassenger |-> path.path, threw |-> FALSE]

\* mutant: the first driver with a path is kept, later ones are not compared
KeepNearer_FirstFound(best, driver, path) ==
    IF path.threw THEN [best EXCEPT !.threw = TRUE]
    ELSE IF path.found /\ ~best.found THEN Nearest(driver, path)
    ELSE best

\* mutant: a nearer driver replaces the one kept, bestPath stays
KeepNearer_StalePath(best, driver, path) ==
    IF path.threw THEN [best EXCEPT !.threw = TRUE]
    ELSE IF path.found /\ path.totalDistance <
                              (IF best.found THEN best.distance ELSE Infinity)
    THEN IF best.found
         THEN [Nearest(driver, path) EXCEPT
                   !.pathToPassenger = best.pathToPassenger]
         ELSE Nearest(driver, path)
    ELSE best

\* "if (path.found && path.totalDistance < minDistance)": best carries
\* minDistance, nearestDriver and bestPath; minDistance is infinity while
\* no driver has been kept
KeepNearer(best, driver, path) ==
    IF path.threw THEN [best EXCEPT !.threw = TRUE]
    ELSE IF path.found /\ path.totalDistance <
                              (IF best.found THEN best.distance ELSE Infinity)
    THEN Nearest(driver, path)
    ELSE best

\* "for (Driver& driver : availableDrivers)"
RECURSIVE NearestFrom(_, _, _, _, _)
NearestFrom(g, available, pickup, k, best) ==
    IF k > Len(available) \/ best.threw
    THEN best
    \* the best driver so far is bound as a value before the next driver
    ELSE CHOOSE out \in
             {NearestFrom(g, available, pickup, k + 1, kept) :
                  kept \in {KeepNearer(best, available[k], path) :
                               path \in {findShortestPath(
                                             g, available[k].currentLocation,
                                             pickup)}}} : TRUE

\* order: the enumeration order of the available drivers in this call
findNearestDriver(g, ds, order, pickupLocation) ==
    IF Len(order) = 0
    THEN NoNearest
    ELSE NearestFrom(g, getAvailableDrivers(ds, order), pickupLocation, 1, NoNearest)

\* RideMatchResult::RideMatchResult
EmptyMatchResult ==
    [success |-> FALSE, errorMessage |-> "", assignedDriver |-> DefaultDriver,
     driverToPickupDistance |-> 0, driverToPickupPath |-> <<>>,
     driverToPickupETA |-> 0, pickupToDestinationPath |-> <<>>,
     pickupToDestinationDistance |-> 0, pickupToDestinationETA |-> 0,
     totalDistance |-> 0, totalETA |-> 0]

Failure(message) == [EmptyMatchResult EXCEPT !.errorMessage = message]

\* what a RideMatcher call hands back: the value returned (ret), whether it
\* left through an exception instead (threw), the last nearest-driver search
\* it logged (nearest), and the registry it left (drivers)
Outcome(ret, nearest, threw, ds) ==
    [ret |-> ret, nearest |-> nearest, threw |-> threw, drivers |-> ds]

\* mutant: the totals leave out the driver's way to the pickup
Matched_TripOnly(nearestDriver, pickupToDestPath) ==
    [success |-> TRUE, errorMessage |-> "",
     assignedDriver |-> nearestDriver.driver,
     driverToPickupDistance |-> nearestDriver.distance,
     driverToPickupPath |-> nearestDriver.pathToPassenger,
     driverToPickupETA |-> calculateETA(nearestDriver.distance),
     pickupToDestinationPath |-> pickupToDestPath.path,
     pickupToDestinationDistance |-> pickupToDestPath.totalDistance,
     pickupToDestinationETA |-> pickupToDestPath.estimatedTime,
     totalDistance |-> pickupToDestPath.totalDistance,
     totalETA |-> pickupToDestPath.estimatedTime]

\* "Populate result"
Matched(nearestDriver, pickupToDestPath) ==
    [success |-> TRUE, errorMessage |-> "",
     assignedDriver |-> nearestDriver.driver,
     driverToPickupDistance |-> nearestDriver.distance,
     driverToPickupPath |-> nearestDriver.pathToPassenger,
     driverToPickupETA |-> calculateETA(nearestDriver.distance),
     pickupToDestinationPath |-> pickupToDestPath.path,
     pickupToDestinationDistance |-> pickupToDestPath.totalDistance,
     pickupToDestinationETA |-> pickupToDestPath.estimatedTime,
     totalDistance |-> nearestDriver.distance + pickupToDestPath.totalDistance,
     totalETA |-> calculateETA(nearestDriver.distance)
                     + pickupToDestPath.estimatedTime]

\* mutant: the driver is marked busy as soon as it is selected
MatchFrom_BusyOnSelection(ds, nearestDriver, pickupToDestPath) ==
    IF nearestDriver.threw
    THEN Outcome(EmptyMatchResult, nearestDriver, TRUE, ds)
    ELSE IF ~nearestDriver.found
    THEN Outcome(Failure("No available drivers found"), nearestDriver, FALSE, ds)
    ELSE IF pickupToDestPath.threw
    THEN Outcome(EmptyMatchResult, nearestDriver, TRUE,
                 updateDriverAvailability(ds, nearestDriver.driver.id, FALSE).drivers)
    ELSE IF ~pickupToDestPath.found
    THEN Outcome(Failure("No route found from pickup to destination"),
                 nearestDriver, FALSE,
                 updateDriverAvailability(ds, nearestDriver.driver.id, FALSE).drivers)
    ELSE Outcome(Matched(nearestDriver, pickupToDestPath), nearestDriver, FALSE,
                 updateDriverAvailability(ds, nearestDriver.driver.id, FALSE).drivers)

\* processRequest from "Find nearest driver" on: nearestDriver is what
\* findNearestDriver returned, pickupToDestPath the route computed after it
\* (computed only when a driver was found)
MatchFrom(ds, nearestDriver, pickupToDestPath) ==
    IF nearestDriver.threw
    THEN Outcome(EmptyMatchResult, nearestDriver, TRUE, ds)
    ELSE IF ~nearestDriver.found
    THEN Outcome(Failure("No available drivers found"), nearestDriver, FALSE, ds)
    ELSE IF pickupToDestPath.threw
    THEN Outcome(EmptyMatchResult, nearestDriver, TRUE, ds)
    ELSE IF ~pickupToDestPath.found
    THEN Outcome(Failure("No route found from pickup to destination"),
                 nearestDriver, FALSE, ds)
    ELSE Outcome(Matched(nearestDriver, pickupToDestPath), nearestDriver, FALSE,
                 updateDriverAvailability(ds, nearestDriver.driver.id, FALSE).drivers)

\* mutant: pickup equal to destination is not rejected
processRequest_NoSameCheck(g, ds, order, request) ==
    IF ~nodeExists(g, request.pickupLocation)
    THEN Outcome(Failure("Invalid pickup location"), NoNearest, FALSE, ds)
    ELSE IF ~nodeExists(g, request.destinationLocation)
    THEN Outcome(Failure("Invalid destination location"), NoNearest, FALSE, ds)
    \* the nearest driver and the trip's path are bound as values
    ELSE CHOOSE out \in
             {MatchFrom(ds, nearestDriver, pickupToDestPath) :
                  nearestDriver \in
                      {findNearestDriver(g, ds, order, request.pickupLocation)},
                  pickupToDestPath \in
                      {findShortestPath(g, request.pickupLocation,
                                        request.destinationLocation)}} : TRUE

\* mutant: equal pickup and destination are reported as an invalid destination
processRequest_SameAsInvalid(g, ds, order, request) ==
    IF ~nodeExists(g, request.pickupLocation)
    THEN Outcome(Failure("Invalid pickup location"), NoNearest, FALSE, ds)
    ELSE IF ~nodeExists(g, request.destinationLocation)
            \/ request.pickupLocation = request.destinationLocation
    THEN Outcome(Failure("Invalid destination location"), NoNearest, FALSE, ds)
    \* the nearest driver and the trip's path are bound as values
    ELSE CHOOSE out \in
             {MatchFrom(ds, nearestDriver, pickupToDestPath) :
                  nearestDriver \in
                      {findNearestDriver(g, ds, order, request.pickupLocation)},
                  pickupToDestPath \in
                      {findShortestPath(g, request.pickupLocation,
                                        request.destinationLocation)}} : TRUE

processRequest(g, ds, order, request) ==
    IF ~nodeExists(g, request.pickupLocation)
    THEN Outcome(Failure("Invalid pickup location"), NoNearest, FALSE, ds)
    ELSE IF ~nodeExists(g, request.destinationLocation)
    THEN Outcome(Failure("Invalid destination location"), NoNearest, FALSE, ds)
    ELSE IF request.pickupLocation = request.destinationLocation
    THEN Outcome(Failure("Pickup and destination cannot be the same"),
                 NoNearest, FALSE, ds)
    \* the nearest driver and the trip's path are bound as values
    ELSE CHOOSE out \in
             {MatchFrom(ds, nearestDriver, pickupToDestPath) :
                  nearestDriver \in
                      {findNearestDriver(g, ds, order, request.pickupLocation)},
                  pickupToDestPath \in
                      {findShortestPath(g, request.pickupLocation,
                                        request.destinationLocation)}} : TRUE

\* RideMatch::RideMatch
EmptyRideMatch ==
    [success |-> FALSE, message |-> "", driver |-> DefaultDriver,
     distanceToPickup |-> 0, distanceToDestination |-> 0, totalDistance |-> 0,
     estimatedTime |-> 0, pathToPickup |-> <<>>, pathToDestination |-> <<>>]

\* "Fill match result"; estimatedTime is whole minutes, truncated
RideMatched(nearestDriver, driverToPickup, pickupToDestination) ==
    [success |-> TRUE, message |-> "Ride matched successfully",
     driver |-> nearestDriver.driver,
     distanceToPickup |-> driverToPickup.totalDistance,
     distanceToDestination |-> pickupToDestination.totalDistance,
     totalDistance |-> driverToPickup.totalDistance
                         + pickupToDestination.totalDistance,
     estimatedTime |-> ((driverToPickup.totalDistance
                         + pickupToDestination.totalDistance) * 60) \div 40,
     pathToPickup |-> driverToPickup.path,
     pathToDestination |-> pickupToDestination.path]

\* mutant: findRide leaves the matched driver available
RideFrom_LeavesAvailable(ds, nearestDriver, driverToPickup, pickupToDestination) ==
    IF driverToPickup.threw \/ pickupToDestination.threw
    THEN Outcome(EmptyRideMatch, nearestDriver, TRUE, ds)
    ELSE IF ~driverToPickup.found \/ ~pickupToDestination.found
    THEN Outcome([EmptyRideMatch EXCEPT !.message = "No valid path found"],
                 nearestDriver, FALSE, ds)
    ELSE Outcome(RideMatched(nearestDriver, driverToPickup, pickupToDestination),
                 nearestDriver, FALSE, ds)

\* findRide once the two routes are computed
RideFrom(ds, nearestDriver, driverToPickup, pickupToDestination) ==
    IF driverToPickup.threw \/ pickupToDestination.threw
    THEN Outcome(EmptyRideMatch, nearestDriver, TRUE, ds)
    ELSE IF ~driverToPickup.found \/ ~pickupToDestination.found
    THEN Outcome([EmptyRideMatch EXCEPT !.message = "No valid path found"],
                 nearestDriver, FALSE, ds)
    ELSE Outcome(RideMatched(nearestDriver, driverToPickup, pickupToDestination),
                 nearestDriver, FALSE,
                 updateDriverAvailability(ds, nearestDriver.driver.id, FALSE).drivers)

\* findRide after its nearest-driver search
RideWithNearest(g, ds, request, nearestDriver) ==
    IF nearestDriver.threw
    THEN Outcome(EmptyRideMatch, nearestDriver, TRUE, ds)
    ELSE IF ~nearestDriver.found
    THEN Outcome([EmptyRideMatch EXCEPT !.message = "No available drivers found"],
                 nearestDriver, FALSE, ds)
    ELSE CHOOSE out \in
             {RideFrom(ds, nearestDriver, driverToPickup, pickupToDestination) :
                  driverToPickup \in
                      {findShortestPath(g, nearestDriver.driver.currentLocation,
                                        request.pickupLocation)},
                  pickupToDestination \in
                      {findShortestPath(g, request.pickupLocation,
                                        request.destinationLocation)}} : TRUE

findRide(g, ds, order, request) ==
    CHOOSE out \in
        {RideWithNearest(g, ds, request, nearestDriver) :
             nearestDriver \in
                 {findNearestDriver(g, ds, order, request.pickupLocation)}} : TRUE

\* const int SLIDING_WINDOW_SIZE = 20
SLIDING_WINDOW_SIZE == 20

\* mutant: the newest entries are dropped instead of the oldest
TrimWindow_DropsNewest(w) ==
    IF Len(w) > SLIDING_WINDOW_SIZE THEN SubSeq(w, 1, SLIDING_WINDOW_SIZE) ELSE w

RECURSIVE TrimWindow(_)
TrimWindow(w) == IF Len(w) > SLIDING_WINDOW_SIZE THEN TrimWindow(Tail(w)) ELSE w

\* mutant: the window is never trimmed
updateSlidingWindow_NoTrim(window, request) == Append(window, request)

updateSlidingWindow(window, request) == TrimWindow(Append(window, request))

\* DemandStats::DemandStats
EmptyDemandStats ==
    [totalRequests |-> 0, successfulMatches |-> 0, failedMatches |-> 0,
     avgWaitTime |-> 0, hotspots |-> <<>>]

\* "locationFrequency[request.pickupLocation]++" over the window
locationFrequency(window) ==
    [l \in {window[i].pickupLocation : i \in 1..Len(window)} |->
        Cardinality({i \in 1..Len(window) : window[i].pickupLocation = l})]

\* mutant: the locations are left in the order the map enumerates them
SortOutcomes_Unsorted(freq) == Orders(DOMAIN freq)

\* what std::sort by "a.second > b.second" may leave of the map's entries:
\* the map enumerates them in any order and the sort is not stable, so
\* locations of equal frequency come out in any order
SortOutcomes(freq) ==
    {o \in Orders(DOMAIN freq) :
        \A i, j \in 1..Len(o) : i < j => freq[o[i]] >= freq[o[j]]}

\* mutant: the requests of the window are reported as successful matches
analyzeDemand_CountsMatches(window, sortedLocations) ==
    IF Len(window) = 0
    THEN EmptyDemandStats
    ELSE [EmptyDemandStats EXCEPT
             !.totalRequests = Len(window),
             !.successfulMatches = Len(window),
             !.hotspots = SubSeq(sortedLocations, 1,
                                 IF Len(sortedLocations) < 3
                                 THEN Len(sortedLocations) ELSE 3)]

\* sortedLocations: the outcome of the sort in this call
analyzeDemand(window, sortedLocations) ==
    IF Len(window) = 0
    THEN EmptyDemandStats
    ELSE [EmptyDemandStats EXCEPT
             !.totalRequests = Len(window),
             !.hotspots = SubSeq(sortedLocations, 1,
                                 IF Len(sortedLocations) < 3
                                 THEN Len(sortedLocations) ELSE 3)]

-----------------------------------------------------------------------------
(* The graphs of the model: NumVertices vertices, and the first MaxRoads   *)
(* roads of CandidateRoads, each left out, added with addEdge, or added    *)
(* one way with addDirectedEdge; every vertex but those of a subset of     *)
(* MaybeUnregistered is registered with addNode.                           *)

Vertices == {0, 1, 2, 3}

NumVertices == Cardinality(Vertices)

\* the roads that may be used are the first MaxRoads of CandidateRoads
MaxRoads == 5

CandidateRoads ==
    << [src |-> 0, dest |-> 1, weight |-> 2, roadName |-> "r01"],
       [src |-> 1, dest |-> 2, weight |-> 2, roadName |-> "r12"],
       [src |-> 2, dest |-> 3, weight |-> 1, roadName |-> "r23"],
       [src |-> 0, dest |-> 2, weight |-> 5, roadName |-> "r02"],
       [src |-> 3, dest |-> 1, weight |-> 0, roadName |-> "r31"],
       [src |-> 1, dest |-> 0, weight |-> 1, roadName |-> "r10"],
       [src |-> 3, dest |-> 3, weight |-> 0, roadName |-> "r33"] >>

RoadModes == {"none", "both", "oneway"}

MaybeUnregistered == {1}

NumRoads == IF MaxRoads < Len(CandidateRoads) THEN MaxRoads ELSE Len(CandidateRoads)

RECURSIVE RegisterNodes(_, _)
RegisterNodes(g, ids) ==
    IF ids = {}
    THEN g
    ELSE LET id == CHOOSE x \in ids : \A y \in ids : x <= y
         IN  RegisterNodes(addNode(g, id, "loc", id, id).graph, ids \ {id})

RECURSIVE AddRoads(_, _, _)
AddRoads(g, modes, k) ==
    IF k > NumRoads
    THEN g
    ELSE LET r == CandidateRoads[k]
             g1 == CASE modes[k] = "both" ->
                           addEdge(g, r.src, r.dest, r.weight, r.roadName).graph
                      [] modes[k] = "oneway" ->
                           addDirectedEdge(g, r.src, r.dest, r.weight, r.roadName).graph
                      [] OTHER -> g
         IN  AddRoads(g1, modes, k + 1)

BuildGraph(modes, unregistered) ==
    AddRoads(RegisterNodes(NewGraph(NumVertices), Vertices \ unregistered), modes, 1)

GraphFamily ==
    {BuildGraph(modes, u) : modes \in [1..NumRoads -> RoadModes],
                            u \in SUBSET MaybeUnregistered}

\* location ids a caller may pass: the vertices and one id out of range
Locations == 0..NumVertices

-----------------------------------------------------------------------------
(* SpecHeap: the public MinHeap operations called in any order *)

NoNode == HeapNode(-2, 0)

EmptyRun ==
    [distances |-> <<>>, predecessors |-> <<>>, pq |-> EmptyHeap,
     processed |-> <<>>, staleSkips |-> 0]

HeapIdle ==
    /\ pq = EmptyHeap
    /\ hop = "new"
    /\ hret = NoNode
    /\ keyRaised = FALSE
    /\ hcall = NoNode
    /\ entered = <<>>

DijkstraIdle ==
    /\ dj = [pc |-> "idle", source |-> -1, destination |-> -1, run |-> EmptyRun]
    /\ pathResult = NotFound

\* what the last call was and gave back; nearest is the search it logged
Result(op, request, ret, nearest, threw) ==
    [op |-> op, request |-> request, ret |-> ret, nearest |-> nearest,
     threw |-> threw]

NoRequest == RideRequest(-1, -1, -1)

\* the bool a registry operation returns, as the ret of a Result
Returned(ok) == [success |-> ok]

MatcherIdle ==
    /\ drivers = EmptyMap
    /\ rideRequestQueue = <<>>
    /\ recentRequests = <<>>
    /\ enqueued = 0
    /\ accepted = <<>>
    /\ dequeued = 0
    /\ result = Result("new", NoRequest, Returned(FALSE), NoNearest, FALSE)

HeapInit ==
    /\ HeapIdle
    /\ graph = NewGraph(0)
    /\ DijkstraIdle
    /\ MatcherIdle

Insert(v, d) ==
    /\ size(pq) < MaxHeap
    /\ pq' = insert(pq, v, d)
    /\ hop' = "insert"
    /\ hret' = NoNode
    /\ UNCHANGED <<keyRaised, hcall, entered, graph, dvars, mvars>>

ExtractMin ==
    /\ pq' = extractMin(pq).pq
    /\ hret' = extractMin(pq).node
    /\ hop' = "extractMin"
    /\ UNCHANGED <<keyRaised, hcall, entered, graph, dvars, mvars>>

DecreaseKey(v, d) ==
    /\ contains(pq, v) \/ size(pq) < MaxHeap
    /\ pq' = decreaseKey(pq, v, d)
    /\ hop' = "decreaseKey"
    /\ hret' = NoNode
    /\ keyRaised' = (keyRaised \/
                     (contains(pq, v) /\ d > At(pq, pq.positions[v]).distance))
    /\ UNCHANGED <<hcall, entered, graph, dvars, mvars>>

HeapNext ==
    \/ \E v \in HeapVertices, d \in HeapDistances : Insert(v, d)
    \/ ExtractMin
    \/ \E v \in HeapVertices, d \in HeapDistances : DecreaseKey(v, d)

SpecHeap == HeapInit /\ [][HeapNext]_vars

-----------------------------------------------------------------------------
(* SpecHeapCalls: the MinHeap operations of SpecHeap on a smaller heap,    *)
(* with the arguments of each call and the order of entry recorded         *)

\* heap.size() is kept at most MaxTracked by the guards
MaxTracked == 3

\* seq without its first element equal to x
RECURSIVE RemoveFirst(_, _)
RemoveFirst(seq, x) ==
    IF seq = <<>> THEN <<>>
    ELSE IF Head(seq) = x THEN Tail(seq)
    ELSE <<Head(seq)>> \o RemoveFirst(Tail(seq), x)

InsertCall(v, d) ==
    /\ size(pq) < MaxTracked
    /\ pq' = insert(pq, v, d)
    /\ hop' = "insert"
    /\ hret' = NoNode
    /\ hcall' = HeapNode(v, d)
    /\ entered' = Append(entered, v)
    /\ UNCHANGED <<keyRaised, graph, dvars, mvars>>

ExtractMinCall ==
    /\ \E out \in {extractMin(pq)} :
          /\ pq' = out.pq
          /\ hret' = out.node
          /\ entered' = RemoveFirst(entered, out.node.vertex)
    /\ hop' = "extractMin"
    /\ hcall' = NoNode
    /\ UNCHANGED <<keyRaised, graph, dvars, mvars>>

DecreaseKeyCall(v, d) ==
    /\ contains(pq, v) \/ size(pq) < MaxTracked
    /\ pq' = decreaseKey(pq, v, d)
    /\ hop' = "decreaseKey"
    /\ hret' = NoNode
    /\ hcall' = HeapNode(v, d)
    /\ entered' = IF contains(pq, v) THEN entered ELSE Append(entered, v)
    /\ keyRaised' = (keyRaised \/
                     (contains(pq, v) /\ d > At(pq, pq.positions[v]).distance))
    /\ UNCHANGED <<graph, dvars, mvars>>

HeapCallsNext ==
    \/ \E v \in HeapVertices, d \in HeapDistances : InsertCall(v, d)
    \/ ExtractMinCall
    \/ \E v \in HeapVertices, d \in HeapDistances : DecreaseKeyCall(v, d)

SpecHeapCalls == HeapInit /\ [][HeapCallsNext]_vars

-----------------------------------------------------------------------------
(* SpecDijkstra: one Dijkstra::findShortestPath(source, destination) call  *)
(* on a graph of the family, one loop iteration per step                   *)

DijkstraInit ==
    /\ HeapIdle
    /\ graph \in GraphFamily
    /\ DijkstraIdle
    /\ MatcherIdle

\* validation, then the initialisation of findShortestPaths
FindShortestPathBegin(source, destination) ==
    /\ dj.pc = "idle"
    /\ IF ~nodeExists(graph, source) \/ ~nodeExists(graph, destination)
       THEN /\ dj' = [dj EXCEPT !.pc = "done", !.source = source,
                                !.destination = destination]
            /\ pathResult' = NotFound
       ELSE /\ dj' = [pc |-> "loop", source |-> source,
                      destination |-> destination,
                      run |-> DijkstraStart(graph, source)]
            /\ UNCHANGED pathResult
    /\ UNCHANGED <<hvars, graph, mvars>>

LoopIteration ==
    /\ dj.pc = "loop"
    /\ ~isEmpty(dj.run.pq)
    /\ dj' = [dj EXCEPT !.run = DijkstraIteration(graph, dj.run)]
    /\ UNCHANGED <<hvars, graph, pathResult, mvars>>

\* the heap is empty: findShortestPaths returns and the path is rebuilt
FindShortestPathEnd ==
    /\ dj.pc = "loop"
    /\ isEmpty(dj.run.pq)
    /\ pathResult' = PathFromRun(graph, dj.source, dj.destination,
                                 DijkstraResult(dj.run))
    /\ dj' = [dj EXCEPT !.pc = "done"]
    /\ UNCHANGED <<hvars, graph, mvars>>

DijkstraNext ==
    \/ \E s \in Locations, d \in Locations : FindShortestPathBegin(s, d)
    \/ LoopIteration
    \/ FindShortestPathEnd

SpecDijkstra == DijkstraInit /\ [][DijkstraNext]_vars

-----------------------------------------------------------------------------
(* Spec: a RideMatcher over a graph of DispatchGraphs; its public          *)
(* operations are called in any order, one at a time                       *)

\* addRideRequest is called at most MaxEnqueued times
MaxEnqueued == 1

DriverIds == {"d1", "d2"}

\* where addDriver / updateDriverLocation put a driver; vertex 1 is an
\* unknown location in the graphs that leave it unregistered
DriverLocations == {1, 2, 3}

\* <<pickup, destination>> of the requests handed to processRequest
\* (4 is out of range), of those that are enqueued, and of those handed to
\* findRide
Trips == {<<3, 2>>, <<3, 3>>, <<3, 4>>, <<4, 2>>, <<2, 3>>, <<2, 0>>, <<4, 4>>}

QueuedTrips == {<<3, 2>>, <<2, 2>>}

FindRideTrips == {<<3, 2>>, <<3, 3>>, <<2, 0>>, <<4, 2>>, <<3, 1>>}

\* roads 1..4 of CandidateRoads: all two-way; a one-way chain 0 -> 1 -> 2 -> 3;
\* two separate components {0,1} and {2,3}
DispatchPlans ==
    { <<"both", "both", "both", "both">>,
      <<"oneway", "oneway", "oneway", "none">>,
      <<"both", "none", "both", "none">> }

RoadPlan(plan) == [k \in 1..NumRoads |-> IF k <= Len(plan) THEN plan[k] ELSE "none"]

\* every vertex registered, or the first plan with MaybeUnregistered left out
DispatchGraphs ==
    {BuildGraph(RoadPlan(plan), {}) : plan \in DispatchPlans}
        \cup {BuildGraph(RoadPlan(<<"both", "both", "both", "both">>),
                         MaybeUnregistered)}

\* the Driver object the binding layer builds for addDriver
DriverInput(id, location, available) ==
    [Driver(id, id, location, "Sedan", IF id = "d1" THEN 48 ELSE 45)
        EXCEPT !.isAvailable = available,
               !.completedRides = IF id = "d1" THEN 7 ELSE 0]

Init ==
    /\ HeapIdle
    /\ graph \in DispatchGraphs
    /\ DijkstraIdle
    /\ MatcherIdle

AddDriver(id, location, available) ==
    /\ drivers' = addDriver(drivers, DriverInput(id, location, available)).drivers
    /\ result' = Result("addDriver", NoRequest,
                        Returned(addDriver(drivers,
                                           DriverInput(id, location, available)).ok),
                        NoNearest, FALSE)
    /\ UNCHANGED <<hvars, graph, dvars, rideRequestQueue, recentRequests, history>>

UpdateDriverLocation(id, location) ==
    /\ drivers' = updateDriverLocation(drivers, id, location).drivers
    /\ result' = Result("updateDriverLocation", NoRequest,
                        Returned(updateDriverLocation(drivers, id, location).ok),
                        NoNearest, FALSE)
    /\ UNCHANGED <<hvars, graph, dvars, rideRequestQueue, recentRequests, history>>

SetDriverAvailability(id, available) ==
    /\ drivers' = updateDriverAvailability(drivers, id, available).drivers
    /\ result' = Result("setDriverAvailability", NoRequest,
                        Returned(updateDriverAvailability(drivers, id, available).ok),
                        NoNearest, FALSE)
    /\ UNCHANGED <<hvars, graph, dvars, rideRequestQueue, recentRequests, history>>

\* rideRequestQueue.push(request); updateSlidingWindow(request)
Enqueue(request) ==
    /\ rideRequestQueue' = Append(rideRequestQueue, request)
    /\ recentRequests' = updateSlidingWindow(recentRequests, request)
    /\ result' = Result("addRideRequest", request, Returned(TRUE), NoNearest, FALSE)
    /\ enqueued' = enqueued + 1
    /\ accepted' = Append(accepted, request)
    /\ UNCHANGED <<hvars, graph, dvars, drivers, dequeued>>

\* the caller numbers its requests in the order it submits them
AddRideRequest(pickup, destination) ==
    /\ enqueued < MaxEnqueued
    /\ Enqueue(RideRequest(enqueued + 1, pickup, destination))

\* mutant: processRequest registers the pickup location in the graph
ProcessRequest_RegistersPickup(pickup, destination) ==
    /\ \E order \in Orders(AvailableIds(drivers)) :
          \E out \in {processRequest(graph, drivers, order,
                                      RideRequest(0, pickup, destination))} :
              /\ drivers' = out.drivers
              /\ result' = Result("processRequest",
                                  RideRequest(0, pickup, destination),
                                  out.ret, out.nearest, out.threw)
    /\ graph' = addNode(graph, pickup, "pickup", pickup, pickup).graph
    /\ UNCHANGED <<hvars, dvars, rideRequestQueue, recentRequests, history>>

\* a request handed to processRequest directly carries requestId 0
ProcessRequest(pickup, destination) ==
    /\ \E order \in Orders(AvailableIds(drivers)) :
          \E out \in {processRequest(graph, drivers, order,
                                      RideRequest(0, pickup, destination))} :
              /\ drivers' = out.drivers
              /\ result' = Result("processRequest",
                                  RideRequest(0, pickup, destination),
                                  out.ret, out.nearest, out.threw)
    /\ UNCHANGED <<hvars, graph, dvars, rideRequestQueue, recentRequests, history>>

\* mutant: the empty queue is reported without a message
NothingPending_Silent ==
    /\ result' = Result("processNextRequest", NoRequest, EmptyMatchResult,
                        NoNearest, FALSE)
    /\ UNCHANGED <<hvars, graph, dvars, drivers, rideRequestQueue,
                   recentRequests, history>>

\* processNextRequest on an empty queue
NothingPending ==
    /\ result' = Result("processNextRequest", NoRequest,
                        Failure("No pending ride requests"), NoNearest, FALSE)
    /\ UNCHANGED <<hvars, graph, dvars, drivers, rideRequestQueue,
                   recentRequests, history>>

\* processNextRequest on a non-empty queue: request was taken off the queue,
\* rest is what the queue keeps
ProcessQueued(request, rest) ==
    /\ \E order \in Orders(AvailableIds(drivers)) :
          \E out \in {processRequest(graph, drivers, order, request)} :
              /\ drivers' = out.drivers
              /\ result' = Result("processNextRequest", request,
                                  out.ret, out.nearest, out.threw)
    /\ rideRequestQueue' = rest
    /\ dequeued' = dequeued + 1
    /\ UNCHANGED <<hvars, graph, dvars, recentRequests, enqueued, accepted>>

\* mutant: the newest request is processed first
ProcessNextRequest_NewestFirst ==
    IF rideRequestQueue = <<>>
    THEN NothingPending
    ELSE ProcessQueued(rideRequestQueue[Len(rideRequestQueue)],
                       SubSeq(rideRequestQueue, 1, Len(rideRequestQueue) - 1))

\* mutant: a request whose match fails stays at the front of the queue
ProcessNextRequest_KeepsFailed ==
    IF rideRequestQueue = <<>>
    THEN NothingPending
    ELSE /\ \E order \in Orders(AvailableIds(drivers)) :
               \E out \in {processRequest(graph, drivers, order,
                                           Head(rideRequestQueue))} :
                   /\ drivers' = out.drivers
                   /\ result' = Result("processNextRequest",
                                       Head(rideRequestQueue),
                                       out.ret, out.nearest, out.threw)
                   /\ rideRequestQueue' = IF out.ret.success
                                          THEN Tail(rideRequestQueue)
                                          ELSE rideRequestQueue
         /\ dequeued' = dequeued + 1
         /\ UNCHANGED <<hvars, graph, dvars, recentRequests, enqueued, accepted>>

\* mutant: a request that cannot be served stays at the front of the queue
ProcessNextRequest_BlocksOnFailure ==
    IF rideRequestQueue = <<>>
    THEN NothingPending
    ELSE /\ \E order \in Orders(AvailableIds(drivers)) :
               \E out \in {processRequest(graph, drivers, order,
                                           Head(rideRequestQueue))} :
                   /\ drivers' = out.drivers
                   /\ result' = Result("processNextRequest",
                                       Head(rideRequestQueue),
                                       out.ret, out.nearest, out.threw)
                   /\ rideRequestQueue' = IF out.ret.success
                                          THEN Tail(rideRequestQueue)
                                          ELSE rideRequestQueue
                   /\ dequeued' = IF out.ret.success
                                  THEN dequeued + 1
                                  ELSE dequeued
         /\ UNCHANGED <<hvars, graph, dvars, recentRequests, enqueued, accepted>>

\* rideRequestQueue.front(); rideRequestQueue.pop(); processRequest(request)
ProcessNextRequest ==
    IF rideRequestQueue = <<>>
    THEN NothingPending
    ELSE ProcessQueued(Head(rideRequestQueue), Tail(rideRequestQueue))

\* mutant: findRide records the request it was given in the sliding window
FindRide_RecordsRequest(pickup, destination) ==
    /\ \E order \in Orders(AvailableIds(drivers)) :
          \E out \in {findRide(graph, drivers, order,
                                RideRequest(0, pickup, destination))} :
              /\ drivers' = out.drivers
              /\ result' = Result("findRide",
                                  RideRequest(0, pickup, destination),
                                  out.ret, out.nearest, out.threw)
    /\ recentRequests' = updateSlidingWindow(recentRequests,
                                             RideRequest(0, pickup, destination))
    /\ UNCHANGED <<hvars, graph, dvars, rideRequestQueue, history>>

FindRide(pickup, destination) ==
    /\ \E order \in Orders(AvailableIds(drivers)) :
          \E out \in {findRide(graph, drivers, order,
                                RideRequest(0, pickup, destination))} :
              /\ drivers' = out.drivers
              /\ result' = Result("findRide",
                                  RideRequest(0, pickup, destination),
                                  out.ret, out.nearest, out.threw)
    /\ UNCHANGED <<hvars, graph, dvars, rideRequestQueue, recentRequests, history>>

AnalyzeDemand ==
    /\ \E sortedLocations \in SortOutcomes(locationFrequency(recentRequests)) :
          result' = Result("analyzeDemand", NoRequest,
                           analyzeDemand(recentRequests, sortedLocations),
                           NoNearest, FALSE)
    /\ UNCHANGED <<hvars, graph, dvars, drivers, rideRequestQueue,
                   recentRequests, history>>

Next ==
    \/ \E id \in DriverIds, l \in DriverLocations, a \in BOOLEAN : AddDriver(id, l, a)
    \/ \E id \in DriverIds, l \in DriverLocations : UpdateDriverLocation(id, l)
    \/ \E id \in DriverIds, a \in BOOLEAN : SetDriverAvailability(id, a)
    \/ \E trip \in QueuedTrips : AddRideRequest(trip[1], trip[2])
    \/ \E trip \in Trips : ProcessRequest(trip[1], trip[2])
    \/ ProcessNextRequest
    \/ \E trip \in FindRideTrips : FindRide(trip[1], trip[2])
    \/ AnalyzeDemand

Spec == Init /\ [][Next]_vars

-----------------------------------------------------------------------------
(* SpecWindow: the RideMatcher fed one of a few long request streams, the   *)
(* other operations called in between in any order                          *)

\* addRideRequest is called at most MaxStream times
MaxStream == 25

StreamNames == {"round", "skewed", "single"}

\* pickup of the k-th request of a stream: the four locations in turn; the
\* four locations with different frequencies; one location only
StreamPickup(name, k) ==
    IF name = "round" THEN k % 4
    ELSE IF name = "single" THEN 2
    ELSE IF k % 2 = 0 THEN 3
    ELSE IF k % 3 = 0 THEN 2
    ELSE IF k % 5 = 0 THEN 1
    ELSE 0

\* every seventh request asks for a ride from a location to itself
StreamRequest(name, k) ==
    RideRequest(k, StreamPickup(name, k),
                IF k % 7 = 0 THEN StreamPickup(name, k)
                ELSE (StreamPickup(name, k) + 1) % 4)

WindowGraph == BuildGraph(RoadPlan(<<"both", "both", "both", "both">>), {})

WindowInit ==
    /\ HeapIdle
    /\ graph = WindowGraph
    /\ DijkstraIdle
    /\ MatcherIdle

\* the next request of a stream that the requests accepted so far begin
EnqueueNext ==
    /\ enqueued < MaxStream
    /\ \E name \in StreamNames :
          /\ \A i \in 1..enqueued : accepted[i] = StreamRequest(name, i)
          /\ Enqueue(StreamRequest(name, enqueued + 1))

WindowNext ==
    \/ AddDriver("d1", 2, TRUE)
    \/ SetDriverAvailability("d1", TRUE)
    \/ EnqueueNext
    \/ ProcessRequest(3, 2)
    \/ ProcessNextRequest
    \/ FindRide(3, 2)
    \/ AnalyzeDemand

SpecWindow == WindowInit /\ [][WindowNext]_vars

(***************************************************************************)
(* SpecDrain: a RideMatcher whose caller keeps calling processNextRequest: *)
(* a call that would change the state is not put off for ever.             *)
(* addRideRequest is called at most MaxPending times, so from some point   *)
(* on no further request is enqueued.  The requests are a trip that can be *)
(* served, a trip to the pickup itself and a trip from a location that     *)
(* does not exist; the driver may be missing, busy or cut off.             *)
(***************************************************************************)

\* addRideRequest is called at most MaxPending times
MaxPending == 3

DrainTrips == {<<3, 2>>, <<3, 3>>, <<4, 2>>}

DrainInit ==
    /\ HeapIdle
    /\ graph \in DispatchGraphs
    /\ DijkstraIdle
    /\ MatcherIdle

AddPending ==
    /\ enqueued < MaxPending
    /\ \E trip \in DrainTrips :
          Enqueue(RideRequest(enqueued + 1, trip[1], trip[2]))

DrainNext ==
    \/ AddDriver("d1", 2, TRUE)
    \/ SetDriverAvailability("d1", TRUE)
    \/ AddPending
    \/ ProcessNextRequest

SpecDrain == DrainInit /\ [][DrainNext]_vars /\ WF_vars(ProcessNextRequest)

-----------------------------------------------------------------------------
(* SpecGraph: the Graph operations called in any order, failing calls      *)
(* included                                                                *)

\* Graph(2): vertices 0 and 1
GraphSize == 2

\* road calls are made while the lists hold at most MaxRoadEntries entries
MaxRoadEntries == 2

\* <<src, dest, weight, roadName>> of the addEdge / addDirectedEdge calls
RoadCalls ==
    { <<0, 1, 2, "a">>, <<1, 0, 0, "b">>, <<1, 1, 2, "loop">>,
      <<0, 2, 2, "a">>, <<-1, 1, 2, "a">>, <<0, 1, -1, "a">>,
      <<2, 0, -1, "a">>, <<0, 1, NaN, "n">> }

\* <<id, name, latitude>> of the addNode calls
NodeCalls ==
    { <<0, "A", 1>>, <<0, "B", 2>>, <<1, "A", 1>>, <<2, "A", 1>>, <<-1, "A", 1>> }

RoadCall(c) == [src |-> c[1], dest |-> c[2], weight |-> c[3], roadName |-> c[4]]

NodeCall(c) == [id |-> c[1], name |-> c[2], latitude |-> c[3], longitude |-> c[3]]

RECURSIVE RoadEntriesFrom(_, _)
RoadEntriesFrom(g, i) ==
    IF i >= g.numVertices THEN 0
    ELSE Len(g.adjacencyList[i]) + RoadEntriesFrom(g, i + 1)

\* number of Edge objects stored
RoadEntries(g) == RoadEntriesFrom(g, 0)

\* what a Graph call did: the exception it threw, if any
GraphResult(op, call, out) ==
    Result(op, call, [error |-> out.error], NoNearest, out.error # "none")

GraphInit ==
    /\ HeapIdle
    /\ graph = NewGraph(GraphSize)
    /\ DijkstraIdle
    /\ MatcherIdle

AddNodeCall(c) ==
    /\ \E out \in {addNode(graph, c[1], c[2], c[3], c[3])} :
          /\ graph' = out.graph
          /\ result' = GraphResult("addNode", NodeCall(c), out)
    /\ UNCHANGED <<hvars, dvars, drivers, rideRequestQueue, recentRequests, history>>

AddEdgeCall(c) ==
    /\ RoadEntries(graph) <= MaxRoadEntries
    /\ \E out \in {addEdge(graph, c[1], c[2], c[3], c[4])} :
          /\ graph' = out.graph
          /\ result' = GraphResult("addEdge", RoadCall(c), out)
    /\ UNCHANGED <<hvars, dvars, drivers, rideRequestQueue, recentRequests, history>>

AddDirectedEdgeCall(c) ==
    /\ RoadEntries(graph) <= MaxRoadEntries
    /\ \E out \in {addDirectedEdge(graph, c[1], c[2], c[3], c[4])} :
          /\ graph' = out.graph
          /\ result' = GraphResult("addDirectedEdge", RoadCall(c), out)
    /\ UNCHANGED <<hvars, dvars, drivers, rideRequestQueue, recentRequests, history>>

Validate ==
    /\ result' = Result("validate", NoRequest, Returned(validate(graph)),
                        NoNearest, FALSE)
    /\ UNCHANGED <<hvars, graph, dvars, drivers, rideRequestQueue,
                   recentRequests, history>>

ToJSON ==
    /\ result' = Result("toJSON", NoRequest, toJSON(graph), NoNearest, FALSE)
    /\ UNCHANGED <<hvars, graph, dvars, drivers, rideRequestQueue,
                   recentRequests, history>>

GraphNext ==
    \/ \E c \in NodeCalls : AddNodeCall(c)
    \/ \E c \in RoadCalls : AddEdgeCall(c)
    \/ \E c \in RoadCalls : AddDirectedEdgeCall(c)
    \/ Validate
    \/ ToJSON

SpecGraph == GraphInit /\ [][GraphNext]_vars

-----------------------------------------------------------------------------
(* SpecDrivers: the DriverManager operations called in any order, with ids *)
(* that are registered and ids that are not                                *)

\* the Driver objects handed to addDriver: two per id and location, so that
\* an id can be offered again with other field values
OfferedDrivers ==
    {DriverInput(id, location, available) :
        id \in DriverIds, location \in {1, 2}, available \in BOOLEAN}

\* where updateDriverLocation moves a driver
NewLocations == {2, 3}

\* the arguments of a DriverManager call
DriverCall(driverId, driver, newLocation, available) ==
    [driverId |-> driverId, driver |-> driver, newLocation |-> newLocation,
     available |-> available]

\* what a DriverManager call returned; none of them throws
DriverResult(op, call, ret) == Result(op, call, ret, NoNearest, FALSE)

DriversInit ==
    /\ HeapIdle
    /\ graph = NewGraph(GraphSize)
    /\ DijkstraIdle
    /\ MatcherIdle

AddDriverCall(driver) ==
    /\ \E out \in {addDriver(drivers, driver)} :
          /\ drivers' = out.drivers
          /\ result' = DriverResult("addDriver",
                                    DriverCall(driver.id, driver, 0, FALSE),
                                    Returned(out.ok))
    /\ UNCHANGED <<hvars, graph, dvars, rideRequestQueue, recentRequests, history>>

RemoveDriverCall(driverId) ==
    /\ \E out \in {removeDriver(drivers, driverId)} :
          /\ drivers' = out.drivers
          /\ result' = DriverResult("removeDriver",
                                    DriverCall(driverId, DefaultDriver, 0, FALSE),
                                    Returned(out.ok))
    /\ UNCHANGED <<hvars, graph, dvars, rideRequestQueue, recentRequests, history>>

GetDriverCall(driverId) ==
    /\ result' = DriverResult("getDriver",
                              DriverCall(driverId, DefaultDriver, 0, FALSE),
                              getDriver(drivers, driverId))
    /\ UNCHANGED <<hvars, graph, dvars, drivers, rideRequestQueue,
                   recentRequests, history>>

UpdateDriverLocationCall(driverId, newLocation) ==
    /\ \E out \in {updateDriverLocation(drivers, driverId, newLocation)} :
          /\ drivers' = out.drivers
          /\ result' = DriverResult("updateDriverLocation",
                                    DriverCall(driverId, DefaultDriver,
                                               newLocation, FALSE),
                                    Returned(out.ok))
    /\ UNCHANGED <<hvars, graph, dvars, rideRequestQueue, recentRequests, history>>

UpdateDriverAvailabilityCall(driverId, available) ==
    /\ \E out \in {updateDriverAvailability(drivers, driverId, available)} :
          /\ drivers' = out.drivers
          /\ result' = DriverResult("updateDriverAvailability",
                                    DriverCall(driverId, DefaultDriver, 0,
                                               available),
                                    Returned(out.ok))
    /\ UNCHANGED <<hvars, graph, dvars, rideRequestQueue, recentRequests, history>>

DriversNext ==
    \/ \E driver \in OfferedDrivers : AddDriverCall(driver)
    \/ \E id \in DriverIds : RemoveDriverCall(id)
    \/ \E id \in DriverIds : GetDriverCall(id)
    \/ \E id \in DriverIds, l \in NewLocations : UpdateDriverLocationCall(id, l)
    \/ \E id \in DriverIds, a \in BOOLEAN : UpdateDriverAvailabilityCall(id, a)

SpecDrivers == DriversInit /\ [][DriversNext]_vars

-----------------------------------------------------------------------------
(* SpecDijkstraLive: the findShortestPath run of SpecDijkstra, on the      *)
(* graphs of the family and on each of them with a parallel road and a     *)
(* zero-weight road from a vertex to itself added.  The while loop and the *)
(* code after it wait for nothing, so a step that can be taken is taken.   *)

\* g with a second road between 0 and 1 and a road from 3 to 3 of weight 0
WithLoopRoads(g) ==
    addEdge(addEdge(g, 1, 0, 1, "r10").graph, 3, 3, 0, "r33").graph

LoopGraphs == {WithLoopRoads(g) : g \in GraphFamily}

DijkstraLiveInit ==
    /\ HeapIdle
    /\ graph \in GraphFamily \cup LoopGraphs
    /\ DijkstraIdle
    /\ MatcherIdle

SpecDijkstraLive ==
    /\ DijkstraLiveInit
    /\ [][DijkstraNext]_vars
    /\ WF_vars(LoopIteration)
    /\ WF_vars(FindShortestPathEnd)

-----------------------------------------------------------------------------
(* Properties of the MinHeap *)

HeapVertexSet == {pq.heap[i].vertex : i \in 1..Len(pq.heap)}

PositionsInRange ==
    \A v \in DOMAIN pq.positions :
        /\ pq.positions[v] \in 0..(Len(pq.heap) - 1)
        /\ At(pq, pq.positions[v]).vertex = v

MinHeapOrdered ==
    \A i \in 1..(Len(pq.heap) - 1) :
        At(pq, parent(i)).distance <= At(pq, i).distance

\* the node handed back by the last extractMin is no larger than what is left
ReturnedIsMinimum ==
    (hop = "extractMin" /\ hret.vertex # -1) =>
        \A i \in 1..Len(pq.heap) : hret.distance <= pq.heap[i].distance

\* C1: after any sequence of insert / extractMin / decreaseKey calls the
\* position index maps exactly the vertices present in the heap array, and
\* slot positions[v] holds the entry of v.
C1_PositionIndexExact ==
    /\ DOMAIN pq.positions = HeapVertexSet
    /\ \A v \in DOMAIN pq.positions :
           /\ pq.positions[v] \in 0..(Len(pq.heap) - 1)
           /\ At(pq, pq.positions[v]).vertex = v

\* C2 as stated: with decreaseKey given any new distance, the heap array is
\* a valid min-heap in every reachable state and extractMin returns an entry
\* no larger than any entry present.
C2_MinHeapAlways == MinHeapOrdered /\ ReturnedIsMinimum

\* C2 amended: as long as no decreaseKey call has raised the distance of a
\* present vertex, the heap array is a valid min-heap and extractMin returns
\* an entry no larger than any entry present.
C2_MinHeapUnlessKeyRaised == (~keyRaised) => (MinHeapOrdered /\ ReturnedIsMinimum)

\* a decreaseKey that lowered a key has sifted the entry above a former
\* ancestor, and an extractMin has then returned a node with others left
C2_Witness ==
    /\ ~keyRaised
    /\ hop = "extractMin"
    /\ hret.vertex # -1
    /\ Len(pq.heap) >= 2
    /\ \E i \in 1..Len(pq.heap) : pq.heap[i].distance > hret.distance

-----------------------------------------------------------------------------
(* Properties of Dijkstra *)

RoadWeights(g, from, to) ==
    {g.adjacencyList[from][k].weight :
        k \in {j \in 1..Len(g.adjacencyList[from]) :
                   g.adjacencyList[from][j].destination = to}}

SetMin(S) == CHOOSE x \in S : \A y \in S : x <= y

\* one round of relaxing every road, from the table D
RelaxAll(g, D) ==
    [v \in 0..(g.numVertices - 1) |->
        SetMin({D[v]} \cup
               UNION {{D[u] + w : w \in RoadWeights(g, u, v)} :
                          u \in {x \in 0..(g.numVertices - 1) : D[x] < Infinity}})]

\* rounds are repeated until the table no longer changes
RECURSIVE RelaxRounds(_, _)
RelaxRounds(g, D) ==
    LET D1 == RelaxAll(g, D)
    IN  IF D1 = D THEN D ELSE RelaxRounds(g, D1)

\* the least total weight of a directed road path from source to each vertex
\* (the fixed point of relaxing every road), Infinity if there is none
ShortestDistances(g, source) ==
    RelaxRounds(g, [v \in 0..(g.numVertices - 1) |->
                       IF v = source THEN 0 ELSE Infinity])

\* vertices that a directed road path from source reaches
RECURSIVE ReachableFrom(_, _)
ReachableFrom(g, S) ==
    LET next == S \cup {v \in 0..(g.numVertices - 1) :
                          \E u \in S : RoadWeights(g, u, v) # {}}
    IN  IF next = S THEN S ELSE ReachableFrom(g, next)

RunFinished == dj.pc = "done" /\ dj.run # EmptyRun

\* every vertex the loop reads is a valid index
DijkstraIndexSafe ==
    dj.pc = "loop" =>
        \A i \in 1..Len(dj.run.pq.heap) :
            dj.run.pq.heap[i].vertex \in 0..(graph.numVertices - 1)

\* C3: for a known source, findShortestPaths returns for each vertex the
\* minimum total weight over all directed road paths from the source, and
\* infinity exactly for the vertices no path reaches.
C3_DistancesAreShortest ==
    RunFinished =>
        /\ dj.run.distances = ShortestDistances(graph, dj.source)
        /\ \A v \in 0..(graph.numVertices - 1) :
               (dj.run.distances[v] = Infinity) <=>
                   (v \notin ReachableFrom(graph, {dj.source}))

\* a finished run in which one vertex is unreachable and another was
\* reached through an intermediate vertex although a direct road exists
C3_Witness ==
    /\ RunFinished
    /\ \E v \in 0..(graph.numVertices - 1) : dj.run.distances[v] = Infinity
    /\ \E v \in 0..(graph.numVertices - 1) :
           /\ dj.run.predecessors[v] \notin {-1, dj.source}
           /\ RoadWeights(graph, dj.source, v) # {}
           /\ dj.run.distances[v] < SetMin(RoadWeights(graph, dj.source, v))

\* C4: the distances of the vertices processed are non-decreasing in
\* processing order, and no recorded or extracted distance is negative.
C4_ProcessingOrderMonotone ==
    dj.pc \in {"loop", "done"} =>
        /\ \A i \in 1..Len(dj.run.processed) : \A j \in i..Len(dj.run.processed) :
               dj.run.processed[i][2] <= dj.run.processed[j][2]
        /\ \A i \in 1..Len(dj.run.processed) : dj.run.processed[i][2] >= 0
        /\ \A v \in DOMAIN dj.run.distances : dj.run.distances[v] >= 0
        /\ \A i \in 1..Len(dj.run.pq.heap) : dj.run.pq.heap[i].distance >= 0

\* four vertices processed, the last at a larger distance than the first
C4_Witness ==
    /\ dj.pc = "loop"
    /\ Len(dj.run.processed) = NumVertices
    /\ dj.run.processed[1][2] < dj.run.processed[2][2]
    /\ dj.run.processed[2][2] < dj.run.processed[NumVertices][2]

RECURSIVE PathWeightFrom(_, _, _)
PathWeightFrom(g, path, i) ==
    IF i >= Len(path)
    THEN 0
    ELSE SetMin(RoadWeights(g, path[i], path[i + 1]))
             + PathWeightFrom(g, path, i + 1)

\* C5: when findShortestPath reports found, the path starts at source, ends
\* at destination, every consecutive pair is joined by a road, and the road
\* weights along it (the lightest road of each pair) sum to totalDistance.
C5_PathRoundTrip ==
    (dj.pc = "done" /\ pathResult.found) =>
        /\ Len(pathResult.path) >= 1
        /\ pathResult.path[1] = dj.source
        /\ pathResult.path[Len(pathResult.path)] = dj.destination
        /\ \A i \in 1..(Len(pathResult.path) - 1) :
               RoadWeights(graph, pathResult.path[i], pathResult.path[i + 1]) # {}
        /\ PathWeightFrom(graph, pathResult.path, 1) = pathResult.totalDistance

\* a found path of three roads whose weights are not all equal
C5_Witness ==
    /\ dj.pc = "done"
    /\ pathResult.found
    /\ Len(pathResult.path) = NumVertices
    /\ pathResult.totalDistance > 0
    /\ dj.source # dj.destination

\* locations 0..3 and the roads 0-1 (2), 1-2 (2), 2-3 (1), 0-2 (5)
ScenarioGraph ==
    LET g0 == RegisterNodes(NewGraph(4), {0, 1, 2, 3})
        g1 == addEdge(g0, 0, 1, 2, "r01").graph
        g2 == addEdge(g1, 1, 2, 2, "r12").graph
        g3 == addEdge(g2, 2, 3, 1, "r23").graph
    IN  addEdge(g3, 0, 2, 5, "r02").graph

\* C6: on the scenario graph shortestPath(0, 3) is found with path
\* [0,1,2,3] and distance 5 (not [0,2,3] of distance 6).
C6_ScenarioPath ==
    (graph = ScenarioGraph /\ dj.pc = "done" /\ dj.source = 0 /\ dj.destination = 3) =>
        /\ pathResult.found
        /\ pathResult.path = <<0, 1, 2, 3>>
        /\ pathResult.totalDistance = 5

C6_Witness ==
    /\ graph = ScenarioGraph
    /\ dj.pc = "done"
    /\ dj.source = 0
    /\ dj.destination = 3
    /\ pathResult.path # <<0, 2, 3>>
    /\ pathResult.found

-----------------------------------------------------------------------------
(* Dispatch: nearest driver, processRequest, processNextRequest *)

SearchOps == {"processRequest", "processNextRequest", "findRide"}

ProcessOps == {"processRequest", "processNextRequest"}

\* a directed road path leads from one known location to another
HasPath(g, from, to) ==
    /\ nodeExists(g, from)
    /\ nodeExists(g, to)
    /\ ShortestDistances(g, from)[to] < Infinity

\* the available drivers of the registry ds that have a path to pickup
ReachableDrivers(g, ds, pickup) ==
    {id \in AvailableIds(ds) : HasPath(g, ds[id].currentLocation, pickup)}

\* C7: a driver selected by the nearest-driver search is, in the registry
\* the call started from, available and connected to the pickup by a path,
\* and its shortest distance to the pickup is at most that of every other
\* available driver with a path, in every enumeration order.
C7_NearestIsGlobalMinimum ==
    [][(result'.op \in SearchOps /\ result'.nearest.found) =>
          LET selected == result'.nearest.driver
              pickup   == result'.request.pickupLocation
          IN  /\ selected.id \in DOMAIN drivers
              /\ drivers[selected.id] = selected
              /\ selected.isAvailable
              /\ selected.id \in ReachableDrivers(graph, drivers, pickup)
              /\ result'.nearest.distance =
                     ShortestDistances(graph, selected.currentLocation)[pickup]
              /\ \A id \in ReachableDrivers(graph, drivers, pickup) :
                     result'.nearest.distance <=
                         ShortestDistances(graph, drivers[id].currentLocation)[pickup]
      ]_vars

\* the driver at distance 1 was selected while another available driver
\* stands at distance 3 from the same pickup
C7_Witness ==
    /\ result.op \in SearchOps
    /\ result.nearest.found
    /\ result.nearest.distance = 1
    /\ \E id \in AvailableIds(drivers) :
          /\ id # result.nearest.driver.id
          /\ HasPath(graph, drivers[id].currentLocation, result.request.pickupLocation)
          /\ ShortestDistances(graph, drivers[id].currentLocation)
                 [result.request.pickupLocation] = 3

\* the conditions under which a request can be matched, in the registry ds
Matchable(g, ds, request) ==
    /\ nodeExists(g, request.pickupLocation)
    /\ nodeExists(g, request.destinationLocation)
    /\ request.pickupLocation # request.destinationLocation
    /\ ReachableDrivers(g, ds, request.pickupLocation) # {}
    /\ HasPath(g, request.pickupLocation, request.destinationLocation)

\* C8: processRequest succeeds exactly when pickup and destination are known
\* and differ, an available driver has a path to the pickup and the
\* destination is reachable from the pickup; otherwise it returns
\* success=false with a message; it never raises.
C8_SuccessIffMatchable ==
    [][result'.op = "processRequest" =>
          /\ ~result'.threw
          /\ result'.ret.success <=> Matchable(graph, drivers, result'.request)
          /\ ~result'.ret.success => result'.ret.errorMessage # ""
      ]_vars

C8_Witness ==
    /\ result.op = "processRequest"
    /\ ~result.threw
    /\ result.ret.success
    /\ result.ret.pickupToDestinationDistance > 0
    /\ result.request.pickupLocation # result.request.destinationLocation

\* C9: a processRequest or processNextRequest call that returns
\* success=false leaves the driver registry as it was before the call.
C9_FailureLeavesRegistry ==
    [][(result'.op \in ProcessOps /\ ~result'.ret.success) => drivers' = drivers
      ]_vars

\* a driver was found, the route to the destination was not, and the driver
\* is still available
C9_Witness ==
    /\ result.op \in ProcessOps
    /\ ~result.ret.success
    /\ result.ret.errorMessage = "No route found from pickup to destination"
    /\ result.nearest.found
    /\ result.nearest.driver.id \in AvailableIds(drivers)

\* C10: after a processRequest or processNextRequest call that returns
\* success=true the assigned driver is unavailable, and the registry differs
\* from the one before the call in that driver's availability only.
C10_SuccessFlipsOnlyAssigned ==
    [][(result'.op \in ProcessOps /\ result'.ret.success) =>
          LET id == result'.ret.assignedDriver.id
          IN  /\ id \in DOMAIN drivers
              /\ ~drivers'[id].isAvailable
              /\ drivers' = [drivers EXCEPT ![id].isAvailable = FALSE]
      ]_vars

\* a driver with completed rides was assigned while a second driver is
\* registered and available
C10_Witness ==
    /\ result.op \in ProcessOps
    /\ result.ret.success
    /\ result.ret.assignedDriver.completedRides > 0
    /\ drivers[result.ret.assignedDriver.id].completedRides > 0
    /\ ~drivers[result.ret.assignedDriver.id].isAvailable
    /\ \E other \in AvailableIds(drivers) : other # result.ret.assignedDriver.id

\* a step in which processRequest or processNextRequest was given a request
\* whose pickup equals its destination
SameLocationStep ==
    /\ result'.op \in ProcessOps
    /\ result'.request # NoRequest
    /\ result'.request.pickupLocation = result'.request.destinationLocation

\* C11 as stated: every request with pickup equal to destination fails with
\* the same-location error and changes no driver.
C11_SameLocationAlways ==
    [][SameLocationStep =>
          /\ ~result'.ret.success
          /\ result'.ret.errorMessage = "Pickup and destination cannot be the same"
          /\ drivers' = drivers
      ]_vars

\* C11: every request whose pickup equals its destination fails and changes
\* no driver; the error is the same-location error when the location is
\* known to the graph and "Invalid pickup location" when it is not.
C11_SameKnownLocation ==
    [][SameLocationStep =>
          /\ ~result'.ret.success
          /\ result'.ret.errorMessage =
                 IF nodeExists(graph, result'.request.pickupLocation)
                 THEN "Pickup and destination cannot be the same"
                 ELSE "Invalid pickup location"
          /\ drivers' = drivers
      ]_vars

\* a queued request from a known location to itself failed while an available
\* driver stands at that very location
C11_Witness ==
    /\ result.op = "processNextRequest"
    /\ result.request # NoRequest
    /\ result.request.pickupLocation = result.request.destinationLocation
    /\ nodeExists(graph, result.request.pickupLocation)
    /\ result.ret.errorMessage = "Pickup and destination cannot be the same"
    /\ \E id \in AvailableIds(drivers) :
          drivers[id].currentLocation = result.request.pickupLocation

\* C12: on every successful processRequest (direct or through
\* processNextRequest) driverToPickupDistance is the shortest distance from
\* the assigned driver's location to the pickup, pickupToDestinationDistance
\* the shortest distance from pickup to destination, totalDistance their sum
\* and totalETA the sum of the two ETAs.
C12_TotalsAreSums ==
    [][(result'.op \in ProcessOps /\ result'.ret.success) =>
          LET ret     == result'.ret
              request == result'.request
          IN  /\ ret.assignedDriver.id \in DOMAIN drivers
              /\ ret.assignedDriver = drivers[ret.assignedDriver.id]
              /\ ret.driverToPickupDistance =
                     ShortestDistances(graph, ret.assignedDriver.currentLocation)
                         [request.pickupLocation]
              /\ ret.pickupToDestinationDistance =
                     ShortestDistances(graph, request.pickupLocation)
                         [request.destinationLocation]
              /\ ret.totalDistance =
                     ret.driverToPickupDistance + ret.pickupToDestinationDistance
              /\ ret.driverToPickupETA = calculateETA(ret.driverToPickupDistance)
              /\ ret.pickupToDestinationETA =
                     calculateETA(ret.pickupToDestinationDistance)
              /\ ret.totalETA = ret.driverToPickupETA + ret.pickupToDestinationETA
      ]_vars

\* a match whose two legs both have a positive length
C12_Witness ==
    /\ result.op \in ProcessOps
    /\ result.ret.success
    /\ result.ret.driverToPickupDistance > 0
    /\ result.ret.pickupToDestinationDistance > 0
    /\ result.ret.totalDistance > result.ret.pickupToDestinationDistance
    /\ result.ret.totalETA > result.ret.pickupToDestinationETA

-----------------------------------------------------------------------------
(* Sliding window and request queue *)

\* C13: in every reachable state the sliding window holds at most 20
\* requests, however many were enqueued and whatever was called in between.
C13_WindowAtMost20 == Len(recentRequests) <= 20

\* the window is full after more than 20 requests were enqueued, and matches
\* were attempted in between
C13_Witness ==
    /\ enqueued > 20
    /\ Len(recentRequests) = 20
    /\ dequeued > 0
    /\ result.op = "analyzeDemand"

\* the last n elements of a sequence
LastOf(seq, n) == SubSeq(seq, Len(seq) - n + 1, Len(seq))

WindowLength(k) == IF k < 20 THEN k ELSE 20

\* C14: after k addRideRequest calls the window is the last min(k, 20)
\* requests enqueued, in enqueue order, whatever became of them, and
\* analyzeDemand reports totalRequests = min(k, 20).
C14_WindowIsLastEnqueued ==
    /\ enqueued = Len(accepted)
    /\ recentRequests = LastOf(accepted, WindowLength(enqueued))
    /\ result.op = "analyzeDemand" =>
           result.ret.totalRequests = WindowLength(enqueued)

\* 25 requests were enqueued, some already processed; analyzeDemand reports
\* 20 and the window starts at the sixth request
C14_Witness ==
    /\ enqueued = 25
    /\ dequeued > 0
    /\ result.op = "analyzeDemand"
    /\ result.ret.totalRequests = 20
    /\ recentRequests[1].requestId = 6
    /\ recentRequests[20].requestId = 25

\* C15: a request that processRequest (called directly or through
\* processNextRequest) matches successfully is the newest entry of the
\* sliding window after the call.
C15_SuccessAppendsToWindow ==
    [][(result'.op \in ProcessOps /\ result'.ret.success) =>
          /\ recentRequests' # <<>>
          /\ recentRequests'[Len(recentRequests')] = result'.request
      ]_vars

\* a step of processNextRequest that found the queue non-empty
DequeueStep == result'.op = "processNextRequest" /\ rideRequestQueue # <<>>

\* C16: the k-th processNextRequest call that finds the queue non-empty
\* processes the k-th request enqueued, whatever became of the earlier ones.
C16_ProcessedInEnqueueOrder ==
    [][DequeueStep =>
          /\ dequeued' = dequeued + 1
          /\ dequeued' <= Len(accepted)
          /\ result'.request = accepted[dequeued']
      ]_vars

\* the fifth dequeue, made after a driver was matched
C16_Witness ==
    /\ result.op = "processNextRequest"
    /\ dequeued = 5
    /\ result.request.requestId = 5
    /\ enqueued > 20
    /\ \E id \in DOMAIN drivers : ~drivers[id].isAvailable

\* C17: the queue is what was enqueued and not yet taken by a
\* processNextRequest call, each request once and in order; its size is the
\* number of enqueues minus the number of processNextRequest calls that
\* found it non-empty; such a call removes the front request whether the
\* match succeeds or fails; processRequest, findRide and analyzeDemand leave
\* the queue alone.
C17_QueueAccounting ==
    [][/\ Len(rideRequestQueue') = enqueued' - dequeued'
       /\ rideRequestQueue' = SubSeq(accepted', dequeued' + 1, enqueued')
       /\ DequeueStep => rideRequestQueue' = Tail(rideRequestQueue)
       /\ result'.op \in {"processRequest", "findRide", "analyzeDemand"} =>
              /\ rideRequestQueue' = rideRequestQueue
              /\ dequeued' = dequeued
              /\ enqueued' = enqueued
      ]_vars

\* a queued request whose match failed is gone from the queue, others wait
C17_Witness ==
    /\ result.op = "processNextRequest"
    /\ result.request # NoRequest
    /\ ~result.ret.success
    /\ dequeued > 1
    /\ rideRequestQueue # <<>>
    /\ \A i \in 1..Len(rideRequestQueue) :
          rideRequestQueue[i].requestId > result.request.requestId

\* C18: processNextRequest on an empty queue returns success=false with
\* "No pending ride requests", raises nothing and leaves the queue, the
\* sliding window and the driver registry unchanged.
C18_EmptyQueueFailure ==
    [][(result'.op = "processNextRequest" /\ rideRequestQueue = <<>>) =>
          /\ ~result'.threw
          /\ ~result'.ret.success
          /\ result'.ret.errorMessage = "No pending ride requests"
          /\ rideRequestQueue' = <<>>
          /\ recentRequests' = recentRequests
          /\ drivers' = drivers
      ]_vars

\* the queue was emptied by earlier calls; an available driver is registered
\* and the window is not empty
C18_Witness ==
    /\ result.op = "processNextRequest"
    /\ result.request = NoRequest
    /\ result.ret.errorMessage = "No pending ride requests"
    /\ rideRequestQueue = <<>>
    /\ recentRequests # <<>>
    /\ AvailableIds(drivers) # {}

\* C19: a findRide call, successful or not, leaves the request queue, its
\* size and the sliding window as they were before the call.
C19_FindRideLeavesQueueAndWindow ==
    [][result'.op = "findRide" =>
          /\ rideRequestQueue' = rideRequestQueue
          /\ Len(rideRequestQueue') = Len(rideRequestQueue)
          /\ recentRequests' = recentRequests
      ]_vars

\* findRide matched a driver while a request waits in the queue
C19_Witness ==
    /\ result.op = "findRide"
    /\ result.ret.success
    /\ ~drivers[result.ret.driver.id].isAvailable
    /\ rideRequestQueue # <<>>
    /\ recentRequests # <<>>

\* the pickup locations of the requests in the window, and how many
\* requests of the window start at location l
WindowPickups == {recentRequests[i].pickupLocation : i \in 1..Len(recentRequests)}

PickupFrequency(l) ==
    Cardinality({i \in 1..Len(recentRequests) : recentRequests[i].pickupLocation = l})

\* C20: analyzeDemand lists min(3, number of distinct pickup locations in
\* the window) hotspots, all distinct, in non-increasing order of pickup
\* frequency within the window, and no location left out is strictly more
\* frequent than a listed one.
C20_HotspotsRanked ==
    result.op = "analyzeDemand" =>
        LET hotspots == result.ret.hotspots
            listed   == {hotspots[i] : i \in 1..Len(hotspots)}
        IN  /\ Len(hotspots) = IF Cardinality(WindowPickups) < 3
                               THEN Cardinality(WindowPickups) ELSE 3
            /\ listed \subseteq WindowPickups
            /\ Cardinality(listed) = Len(hotspots)
            /\ \A i, j \in 1..Len(hotspots) :
                   i < j => PickupFrequency(hotspots[i]) >= PickupFrequency(hotspots[j])
            /\ \A l \in WindowPickups \ listed : \A h \in listed :
                   PickupFrequency(l) <= PickupFrequency(h)

\* a full window with four pickup locations of which three are listed, in
\* strictly decreasing frequency
C20_Witness ==
    /\ result.op = "analyzeDemand"
    /\ Len(recentRequests) = 20
    /\ Cardinality(WindowPickups) = 4
    /\ Len(result.ret.hotspots) = 3
    /\ PickupFrequency(result.ret.hotspots[1]) > PickupFrequency(result.ret.hotspots[2])
    /\ PickupFrequency(result.ret.hotspots[2]) > PickupFrequency(result.ret.hotspots[3])

\* C21: two analyzeDemand calls on the same window contents return the same
\* hotspots in the same order.
C21_HotspotsDeterministic ==
    [][(/\ result.op = "analyzeDemand"
        /\ result'.op = "analyzeDemand"
        /\ recentRequests' = recentRequests) =>
          result'.ret.hotspots = result.ret.hotspots
      ]_vars

-----------------------------------------------------------------------------
(* Graph API *)

InRange(v) == v \in 0..(graph.numVertices - 1)

\* the adjacency lists after a road src -- dest was added in both directions
WithBothDirections(adj, c) ==
    IF c.src = c.dest
    THEN [adj EXCEPT ![c.src] = @ \o <<Edge(c.dest, c.weight, c.roadName),
                                       Edge(c.src, c.weight, c.roadName)>>]
    ELSE [adj EXCEPT ![c.src] = Append(@, Edge(c.dest, c.weight, c.roadName)),
                     ![c.dest] = Append(@, Edge(c.src, c.weight, c.roadName))]

\* C22: addEdge with both endpoints in [0, n) and weight >= 0 appends one
\* entry dest to the list of src and one entry src to the list of dest, with
\* the same weight and name, and changes nothing else; with an endpoint out
\* of range it throws out_of_range; with endpoints in range and weight < 0 it
\* throws invalid_argument; a throwing addEdge, addDirectedEdge or addNode
\* leaves the graph unchanged.
C22_AddEdgeContract ==
    [][/\ result'.op = "addEdge" =>
            LET c == result'.request
            IN  IF ~InRange(c.src) \/ ~InRange(c.dest)
                THEN result'.ret.error = "out_of_range"
                ELSE IF c.weight # NaN /\ c.weight < 0
                THEN result'.ret.error = "invalid_argument"
                ELSE c.weight # NaN =>
                        /\ result'.ret.error = "none"
                        /\ graph' = [graph EXCEPT !.adjacencyList =
                                        WithBothDirections(@, c)]
       /\ (result'.op \in {"addEdge", "addDirectedEdge", "addNode"}
              /\ result'.ret.error # "none") =>
            /\ result'.threw
            /\ graph' = graph
      ]_vars

\* a second two-way road was added between two vertices that had one
C22_Witness ==
    /\ result.op = "addEdge"
    /\ result.ret.error = "none"
    /\ result.request.src # result.request.dest
    /\ Len(graph.adjacencyList[result.request.src]) = 2
    /\ Len(graph.adjacencyList[result.request.dest]) = 2
    /\ graph.adjacencyList[result.request.dest][2] =
           Edge(result.request.src, result.request.weight, result.request.roadName)

\* C22 as stated: addEdge throws out_of_range whenever an endpoint is out of
\* range and invalid_argument whenever the weight is negative.
C22_AddEdgeErrorsAsStated ==
    [][result'.op = "addEdge" =>
          LET c == result'.request
          IN  /\ (~InRange(c.src) \/ ~InRange(c.dest)) =>
                     result'.ret.error = "out_of_range"
              /\ (c.weight # NaN /\ c.weight < 0) =>
                     result'.ret.error = "invalid_argument"
      ]_vars

\* C23: in every state reached through addNode, addEdge and addDirectedEdge
\* calls every stored road has a destination in [0, n) and a weight >= 0,
\* validate() is true, and every registered location id is in [0, n).
C23_RoadsValid ==
    /\ \A i \in 0..(graph.numVertices - 1) :
          \A k \in 1..Len(graph.adjacencyList[i]) :
              /\ InRange(graph.adjacencyList[i][k].destination)
              /\ graph.adjacencyList[i][k].weight # NaN
              /\ graph.adjacencyList[i][k].weight >= 0
    /\ validate(graph)
    /\ \A id \in DOMAIN graph.nodes : InRange(id)

IsPrefix(a, b) == Len(a) <= Len(b) /\ SubSeq(b, 1, Len(a)) = a

\* C24: no Graph operation removes, reorders or alters a stored road: after
\* every step each adjacency list begins with its previous contents, and the
\* vertex count is the same.
C24_AppendOnly ==
    [][/\ graph'.numVertices = graph.numVertices
       /\ DOMAIN graph'.adjacencyList = DOMAIN graph.adjacencyList
       /\ \A i \in DOMAIN graph.adjacencyList :
              IsPrefix(graph.adjacencyList[i], graph'.adjacencyList[i])
      ]_vars

\* a one-way road was added to a list that held a different road
C24_Witness ==
    /\ result.op = "addDirectedEdge"
    /\ result.ret.error = "none"
    /\ Len(graph.adjacencyList[result.request.src]) = 2
    /\ graph.adjacencyList[result.request.src][1] # graph.adjacencyList[result.request.src][2]
    /\ graph.adjacencyList[result.request.src][2] =
           Edge(result.request.dest, result.request.weight, result.request.roadName)

\* C25: once addNode(id, ...) has succeeded, the Node stored for id never
\* changes, whatever is called later, addNode with the same id included.
C25_LocationImmutable ==
    [][\A id \in DOMAIN graph.nodes :
          /\ id \in DOMAIN graph'.nodes
          /\ graph'.nodes[id] = graph.nodes[id]
      ]_vars

Occurrences(x, seq) == Cardinality({k \in 1..Len(seq) : seq[k] = x})

\* the export entry of a two-way road: the smaller endpoint is the source
ListedRoad(c) ==
    [source      |-> IF c.src < c.dest THEN c.src ELSE c.dest,
     destination |-> IF c.src < c.dest THEN c.dest ELSE c.src,
     weight      |-> c.weight,
     roadName    |-> c.roadName]

\* C26: the edges of the export are the roads added with addEdge, each
\* listed once (one whose endpoints are the same location too): a successful
\* addEdge adds exactly its entry to the export, and no other call changes
\* the export.
C26_ExportListsRoadsOnce ==
    [][IF result'.op = "addEdge" /\ result'.ret.error = "none"
       THEN /\ Len(ExportFrom(graph', 0)) = Len(ExportFrom(graph, 0)) + 1
            /\ Occurrences(ListedRoad(result'.request), ExportFrom(graph', 0)) =
                   Occurrences(ListedRoad(result'.request), ExportFrom(graph, 0)) + 1
       ELSE ExportFrom(graph', 0) = ExportFrom(graph, 0)
      ]_vars


-----------------------------------------------------------------------------
(* Request processing and the graph *)

RequestOps ==
    {"addRideRequest", "processRequest", "processNextRequest", "findRide",
     "analyzeDemand"}

\* C27: processRequest, processNextRequest, findRide, analyzeDemand and
\* addRideRequest, with the shortest-path searches they run, leave the
\* graph's vertex count, every adjacency list and all registered locations
\* as they were.
C27_ProcessingLeavesGraph ==
    [][result'.op \in RequestOps =>
          /\ graph'.numVertices = graph.numVertices
          /\ graph'.adjacencyList = graph.adjacencyList
          /\ graph'.nodes = graph.nodes
      ]_vars

\* a request was matched over at least one road, with another one waiting
C27_Witness ==
    /\ result.op = "processRequest"
    /\ result.ret.success
    /\ result.ret.totalDistance > 0
    /\ rideRequestQueue # <<>>
    /\ graph \in DispatchGraphs


-----------------------------------------------------------------------------
(* DriverManager *)

\* the records of the registry other than driverId's are the same in ds2 as
\* in ds1
OthersUnchanged(ds1, ds2, driverId) ==
    /\ DOMAIN ds2 \ {driverId} = DOMAIN ds1 \ {driverId}
    /\ \A o \in DOMAIN ds1 \ {driverId} : ds2[o] = ds1[o]

\* C28: addDriver with an id that is already present returns false without
\* throwing and leaves the stored record, every field of it, and the rest
\* of the registry unchanged; and in every state each id of the registry
\* is the id of the one record stored under it.
C28_DuplicateAddRefused ==
    [][/\ (/\ result'.op = "addDriver"
           /\ result'.request.driverId \in DOMAIN drivers) =>
              /\ ~result'.ret.success
              /\ ~result'.threw
              /\ drivers' = drivers
       /\ \A id \in DOMAIN drivers' : drivers'[id].id = id
      ]_vars

\* an id was offered again with other field values while another driver
\* is registered
C28_Witness ==
    /\ result.op = "addDriver"
    /\ ~result.ret.success
    /\ result.request.driverId \in DOMAIN drivers
    /\ drivers[result.request.driverId] # result.request.driver
    /\ Cardinality(DOMAIN drivers) = 2

\* C29: removeDriver, updateDriverLocation and updateDriverAvailability
\* with an id that is not registered return false without throwing and
\* leave every record unchanged (getDriver of that id gives nullptr); with
\* a registered id they return true and change only that driver:
\* removeDriver erases it, updateDriverLocation changes only its
\* currentLocation, updateDriverAvailability only its isAvailable.
C29_RegistryUpdates ==
    [][result'.op \in {"removeDriver", "updateDriverLocation",
                       "updateDriverAvailability"} =>
          LET id == result'.request.driverId
          IN  IF id \notin DOMAIN drivers
              THEN /\ ~result'.ret.success
                   /\ ~result'.threw
                   /\ drivers' = drivers
                   /\ ~getDriver(drivers', id).success
              ELSE /\ result'.ret.success
                   /\ ~result'.threw
                   /\ OthersUnchanged(drivers, drivers', id)
                   /\ CASE result'.op = "removeDriver" ->
                              id \notin DOMAIN drivers'
                        [] result'.op = "updateDriverLocation" ->
                              /\ id \in DOMAIN drivers'
                              /\ drivers'[id] =
                                     [drivers[id] EXCEPT !.currentLocation =
                                          result'.request.newLocation]
                        [] OTHER ->
                              /\ id \in DOMAIN drivers'
                              /\ drivers'[id] =
                                     [drivers[id] EXCEPT !.isAvailable =
                                          result'.request.available]
      ]_vars

\* a busy driver was moved while another driver is registered
C29_Witness ==
    /\ result.op = "updateDriverLocation"
    /\ result.ret.success
    /\ drivers[result.request.driverId].currentLocation = result.request.newLocation
    /\ ~drivers[result.request.driverId].isAvailable
    /\ Cardinality(DOMAIN drivers) = 2


-----------------------------------------------------------------------------
(* findShortestPath: found and not found *)

\* source or destination is not a registered location
UnknownEndpoint == ~nodeExists(graph, dj.source) \/ ~nodeExists(graph, dj.destination)

\* C30: findShortestPath returns without throwing; it reports not found
\* exactly when source or destination is not a registered location or no
\* road path leads from source to destination; otherwise it reports found
\* with the least total weight, and for source = destination the path
\* <<source>> with distance 0.
C30_NotFoundExactly ==
    dj.pc = "done" =>
        /\ ~pathResult.threw
        /\ ~pathResult.found <=>
               \/ UnknownEndpoint
               \/ dj.destination \notin ReachableFrom(graph, {dj.source})
        /\ pathResult.found =>
               pathResult.totalDistance =
                   ShortestDistances(graph, dj.source)[dj.destination]
        /\ (~UnknownEndpoint /\ dj.source = dj.destination) =>
               /\ pathResult.found
               /\ pathResult.path = <<dj.source>>
               /\ pathResult.totalDistance = 0

\* a path from a location to itself was asked for in a graph that has roads
\* from it and a location that is not registered
C30_Witness ==
    /\ dj.pc = "done"
    /\ dj.source = dj.destination
    /\ pathResult.found
    /\ pathResult.path = <<dj.source>>
    /\ graph.adjacencyList[dj.source] # <<>>
    /\ \E v \in Vertices : ~nodeExists(graph, v)


-----------------------------------------------------------------------------
(* Termination of findShortestPaths and the heap during the run *)

\* number of extractMin calls the loop has made
Extractions == Len(dj.run.processed) + dj.run.staleSkips

\* C31: on every graph (zero-weight roads, roads from a vertex to itself,
\* parallel roads and cycles included) the loop of findShortestPaths ends
\* with the heap empty, after at most one extractMin per vertex.
C31_RunTerminates ==
    (dj.pc = "loop") ~>
        (/\ dj.pc = "done"
         /\ isEmpty(dj.run.pq)
         /\ Extractions <= graph.numVertices)

\* a finished run that extracted every vertex of a graph with a road from
\* a vertex to itself, two roads between one pair and a zero-weight road
C31_Witness ==
    /\ RunFinished
    /\ isEmpty(dj.run.pq)
    /\ Extractions = graph.numVertices
    /\ graph \in LoopGraphs
    /\ \E v \in Vertices : 0 \in RoadWeights(graph, v, v)
    /\ Cardinality(RoadWeights(graph, 0, 1)) = 2


\* the vertices of the heap of the run, one per entry
RunHeapVertices == [i \in 1..Len(dj.run.pq.heap) |-> dj.run.pq.heap[i].vertex]

Distinct(seq) == \A i, j \in 1..Len(seq) : i # j => seq[i] # seq[j]

\* C32: during findShortestPaths each vertex is extracted and processed at
\* most once and is not put back in the heap after its extraction; the heap
\* never holds two entries of one vertex, never more entries than there
\* are vertices, and no extracted entry is skipped as stale.
C32_ExtractedOnce ==
    dj.pc \in {"loop", "done"} =>
        /\ Distinct([i \in 1..Len(dj.run.processed) |-> dj.run.processed[i][1]])
        /\ \A i \in 1..Len(dj.run.processed) :
               /\ ~contains(dj.run.pq, dj.run.processed[i][1])
               /\ \A k \in 1..Len(RunHeapVertices) :
                      RunHeapVertices[k] # dj.run.processed[i][1]
        /\ Distinct(RunHeapVertices)
        /\ size(dj.run.pq) <= graph.numVertices
        /\ dj.run.staleSkips = 0

\* two vertices wait in the heap after two others were processed, one of
\* them reached over a zero-weight road, in a graph with a road from a
\* vertex to itself
C32_Witness ==
    /\ dj.pc = "loop"
    /\ Len(dj.run.processed) = 2
    /\ dj.run.processed[2][2] = dj.run.processed[1][2]
    /\ size(dj.run.pq) = 2
    /\ graph \in LoopGraphs


-----------------------------------------------------------------------------
(* decreaseKey, ties and duplicates in the MinHeap *)

\* number of entries <<vertex, distance>> in the heap array of h
EntryCount(h, vertex, distance) ==
    Cardinality({i \in 1..Len(h.heap) : h.heap[i] = HeapNode(vertex, distance)})

VerticesOf(h) == {h.heap[i].vertex : i \in 1..Len(h.heap)}

DistancesOf(h) == {h.heap[i].distance : i \in 1..Len(h.heap)}

\* C33: decreaseKey(vertex, d) on a vertex for which contains is false does
\* what insert(vertex, d) does: afterwards contains(vertex) is true and
\* size() is one more; on a vertex for which contains is true one entry of
\* that vertex (the one the index points to) gets the distance d; every
\* other entry, size() and the set of vertices present stay as they were.
C33_DecreaseKeyEffect ==
    [][hop' = "decreaseKey" =>
          LET v == hcall'.vertex
              d == hcall'.distance
          IN  IF ~contains(pq, v)
              THEN /\ pq' = insert(pq, v, d)
                   /\ contains(pq', v)
                   /\ size(pq') = size(pq) + 1
              ELSE LET old == At(pq, pq.positions[v]).distance
                   IN  /\ size(pq') = size(pq)
                       /\ DOMAIN pq'.positions = DOMAIN pq.positions
                       /\ VerticesOf(pq') = VerticesOf(pq)
                       /\ \A x \in VerticesOf(pq),
                             e \in DistancesOf(pq) \cup {d} :
                              EntryCount(pq', x, e) =
                                  EntryCount(pq, x, e)
                                    + (IF x = v /\ e = d /\ old # d THEN 1 ELSE 0)
                                    - (IF x = v /\ e = old /\ old # d THEN 1 ELSE 0)
      ]_vars


\* position of the first x in seq, 0 if there is none
FirstIndex(seq, x) ==
    IF \E i \in 1..Len(seq) : seq[i] = x
    THEN CHOOSE i \in 1..Len(seq) : seq[i] = x /\ \A j \in 1..(i - 1) : seq[j] # x
    ELSE 0

\* C34: of the entries with equal distance that are in the heap, extractMin
\* returns the one that entered the heap first (stated for heaps that hold
\* one entry per vertex, so that an entry is known by its vertex).
C34_TiesInEntryOrder ==
    [][(/\ hop' = "extractMin"
        /\ hret'.vertex # -1
        /\ Cardinality(VerticesOf(pq)) = Len(pq.heap)) =>
          \A i \in 1..Len(pq.heap) :
              pq.heap[i].distance = hret'.distance =>
                  FirstIndex(entered, hret'.vertex)
                      <= FirstIndex(entered, pq.heap[i].vertex)
      ]_vars

\* C35: the heap array holds at most one entry per vertex, and size() is
\* the number of vertices for which contains() is true.
C35_OneEntryPerVertex ==
    /\ \A i, j \in 1..Len(pq.heap) :
           i # j => pq.heap[i].vertex # pq.heap[j].vertex
    /\ size(pq) = Cardinality({v \in HeapVertices : contains(pq, v)})


-----------------------------------------------------------------------------
(* findRide, assignments and dispatch results *)

\* C36: findRide for a request whose pickup equals its destination, whose
\* pickup or destination is not a registered location, or whose destination
\* cannot be reached from the pickup returns success = false, without
\* throwing, and leaves the availability of every driver as it was.
C36_FindRideRefuses ==
    [][(/\ result'.op = "findRide"
        /\ \/ result'.request.pickupLocation = result'.request.destinationLocation
           \/ ~nodeExists(graph, result'.request.pickupLocation)
           \/ ~nodeExists(graph, result'.request.destinationLocation)
           \/ ~HasPath(graph, result'.request.pickupLocation,
                       result'.request.destinationLocation)) =>
          /\ ~result'.ret.success
          /\ ~result'.threw
          /\ DOMAIN drivers' = DOMAIN drivers
          /\ \A id \in DOMAIN drivers :
                 drivers'[id].isAvailable = drivers[id].isAvailable
      ]_vars


\* the id of the driver a successful match assigned
AssignedId(r) ==
    IF r.op = "findRide" THEN r.ret.driver.id ELSE r.ret.assignedDriver.id

\* C37: a successful processRequest, processNextRequest or findRide assigns
\* a driver that was available and leaves it unavailable, with one
\* available driver less than before; and a driver that is not available
\* becomes available again only through setDriverAvailability.  So an
\* assigned driver is not assigned again before that call, and there are
\* never more successful matches than drivers that were available.
C37_AssignedOnce ==
    [][/\ (result'.op \in SearchOps /\ result'.ret.success) =>
              /\ AssignedId(result') \in AvailableIds(drivers)
              /\ AssignedId(result') \notin AvailableIds(drivers')
              /\ Cardinality(AvailableIds(drivers')) =
                     Cardinality(AvailableIds(drivers)) - 1
       /\ \A id \in DOMAIN drivers :
              (~drivers[id].isAvailable /\ id \in AvailableIds(drivers')) =>
                  result'.op = "setDriverAvailability"
      ]_vars

\* findRide assigned the last available driver of two
C37_Witness ==
    /\ result.op = "findRide"
    /\ result.ret.success
    /\ Cardinality(DOMAIN drivers) = 2
    /\ AvailableIds(drivers) = {}
    /\ result.request.pickupLocation # result.request.destinationLocation


\* path leads from location from to location to
Joins(path, from, to) ==
    /\ Len(path) >= 1
    /\ path[1] = from
    /\ path[Len(path)] = to

\* C38: in a successful result of processRequest or processNextRequest
\* driverToPickupPath leads from the assigned driver's current location to
\* the pickup, pickupToDestinationPath from the pickup to the destination,
\* and assignedDriver is the registry record as it was when the driver was
\* selected, flagged available; the same for the paths and the driver of
\* a successful findRide.
C38_PathsMatchRequest ==
    [][/\ (result'.op \in ProcessOps /\ result'.ret.success) =>
              LET r == result'.ret
              IN  /\ r.assignedDriver.id \in DOMAIN drivers
                  /\ r.assignedDriver = drivers[r.assignedDriver.id]
                  /\ r.assignedDriver.isAvailable
                  /\ Joins(r.driverToPickupPath, r.assignedDriver.currentLocation,
                           result'.request.pickupLocation)
                  /\ Joins(r.pickupToDestinationPath,
                           result'.request.pickupLocation,
                           result'.request.destinationLocation)
       /\ (result'.op = "findRide" /\ result'.ret.success) =>
              LET r == result'.ret
              IN  /\ r.driver.id \in DOMAIN drivers
                  /\ r.driver = drivers[r.driver.id]
                  /\ r.driver.isAvailable
                  /\ Joins(r.pathToPickup, r.driver.currentLocation,
                           result'.request.pickupLocation)
                  /\ Joins(r.pathToDestination, result'.request.pickupLocation,
                           result'.request.destinationLocation)
      ]_vars

\* the assigned driver came to the pickup over a road, and a second driver
\* that stands elsewhere, with a path to the pickup, is still available
C38_Witness ==
    /\ result.op \in ProcessOps
    /\ result.ret.success
    /\ Len(result.ret.driverToPickupPath) >= 2
    /\ Len(result.ret.pickupToDestinationPath) >= 2
    /\ \E other \in ReachableDrivers(graph, drivers, result.request.pickupLocation) :
           drivers[other].currentLocation # result.ret.assignedDriver.currentLocation


-----------------------------------------------------------------------------
(* analyzeDemand's counters, and the queue draining *)

\* C39: analyzeDemand changes nothing (graph, registry, queue, window), and
\* whatever was enqueued or processed before it reports successfulMatches,
\* failedMatches and avgWaitTime as 0.
C39_AnalyzeDemandReadsOnly ==
    [][result'.op = "analyzeDemand" =>
          /\ UNCHANGED <<graph, drivers, rideRequestQueue, recentRequests>>
          /\ result'.ret.successfulMatches = 0
          /\ result'.ret.failedMatches = 0
          /\ result'.ret.avgWaitTime = 0
      ]_vars

\* analyzeDemand was called after a queued request was matched and the
\* window holds a request
C39_Witness ==
    /\ result.op = "analyzeDemand"
    /\ result.ret.totalRequests >= 1
    /\ dequeued >= 1
    /\ rideRequestQueue = <<>>
    /\ \E id \in DOMAIN drivers : ~drivers[id].isAvailable

\* C40: while processNextRequest keeps being called, a queue that holds
\* requests becomes empty, every accepted request having been taken from it
\* once (as many dequeued as enqueued); a request that is refused leaves the
\* queue like one that is served, so the requests behind it are reached
C40_QueueDrains ==
    (rideRequestQueue # <<>>)
        ~> (rideRequestQueue = <<>> /\ dequeued = enqueued)

\* the queue has drained: the first request was refused, the last one served
C40_Witness ==
    /\ rideRequestQueue = <<>>
    /\ enqueued >= 3
    /\ dequeued = enqueued
    /\ accepted[1].pickupLocation = accepted[1].destinationLocation
    /\ result.op = "processNextRequest"
    /\ result.request = accepted[enqueued]
    /\ result.ret.success

====
